---------------------------- MODULE Spec2Model ----------------------------
(***************************************************************************)
(* A model of word_mcp (src/word_mcp.py): the tool operations over Word    *)
(* documents, their find/replace and query engine, the paragraph differ     *)
(* and the readability scorer.                                              *)
(*                                                                          *)
(* A text is a sequence of one-character strings.  A document is a record  *)
(* of body paragraphs (each a sequence of styled runs), tables (rows of     *)
(* cells, a merged cell standing at several grid positions of its row) and  *)
(* sections.  The file system is the function disk from paths to            *)
(* documents.  Every tool call is one action: it reads disk, computes the   *)
(* whole handler and leaves its response in resp.                           *)
(***************************************************************************)
EXTENDS Integers, Sequences, FiniteSets, TLC

VARIABLES
    disk,   \* path -> document stored there, or NoFile
    resp,   \* what the last call gave back to its caller
    call    \* the last call: operation, arguments, disk before it

vars == <<disk, resp, call>>

(***************************************************************************)
(* Bounds of the model.                                                     *)
(***************************************************************************)
MaxLen == 5          \* longest text given to the readability scorer
MaxParas == 4        \* most paragraphs of an enumerated paragraph sequence
MaxCalls == 2        \* most tool calls in one run of the tool interface

\* An optional value is None or Some(v).
None == <<>>
Some(v) == <<v>>

\* What a path holds: no file, a file that is no Word document (Document(path)
\* raises on it), or a document (kind "docx").
NoFile == [kind |-> "nofile"]
BadFile == [kind |-> "badfile"]
IsDoc(file) == file.kind = "docx"

(***************************************************************************)
(* Sequences.                                                               *)
(***************************************************************************)
Range(s) == {s[i] : i \in DOMAIN s}

SeqsUpTo(S, n) == UNION {[1..k -> S] : k \in 0..n}

RECURSIVE Concat(_)
Concat(ss) == IF ss = <<>> THEN <<>> ELSE Head(ss) \o Concat(Tail(ss))

RECURSIVE SumSeq(_)
SumSeq(s) == IF s = <<>> THEN 0 ELSE Head(s) + SumSeq(Tail(s))

Min(a, b) == IF a <= b THEN a ELSE b
Max(a, b) == IF a >= b THEN a ELSE b

\* s[i..j] in Python's slice sense on 1-based positions, clipped to s.
Slice(s, i, j) == SubSeq(s, Max(i, 1), Min(j, Len(s)))

(***************************************************************************)
(* Characters: str.lower(), str.strip(), \w and \b of Python's re.          *)
(***************************************************************************)
Upper == {"A", "C", "H", "T", "R"}
Letters ==
    {"a", "b", "c", "d", "e", "f", "g", "h", "i", "j", "k", "l", "m", "n", "o",
     "p", "q", "r", "s", "t", "u", "v", "w", "x", "y", "z"} \cup Upper
Spaces == {" ", "\n"}

LowerChar(c) ==
    CASE c = "A" -> "a"
      [] c = "C" -> "c"
      [] c = "H" -> "h"
      [] c = "T" -> "t"
      [] c = "R" -> "r"
      [] OTHER -> c

Lower(s) == [i \in DOMAIN s |-> LowerChar(s[i])]

IsWordChar(c) == c \in Letters

IsSpace(c) == c \in Spaces

RECURSIVE LStrip(_)
LStrip(s) == IF s # <<>> /\ IsSpace(Head(s)) THEN LStrip(Tail(s)) ELSE s

RECURSIVE RStrip(_)
RStrip(s) ==
    IF s # <<>> /\ IsSpace(s[Len(s)]) THEN RStrip(SubSeq(s, 1, Len(s) - 1)) ELSE s

\* str.strip()
Strip(s) == RStrip(LStrip(s))

\* str.find(sub) from position i (1-based); 0 when absent.
RECURSIVE FindFrom(_, _, _)
FindFrom(s, sub, i) ==
    IF i + Len(sub) - 1 > Len(s) THEN 0
    ELSE IF SubSeq(s, i, i + Len(sub) - 1) = sub THEN i
    ELSE FindFrom(s, sub, i + 1)

\* sub in s
Contains(s, sub) == FindFrom(s, sub, 1) # 0

\* s.split(sep, 1) when sep occurs in s: the parts before and after the first sep.
SplitFirst(s, sep) ==
    LET k == FindFrom(s, <<sep>>, 1)
    IN  <<SubSeq(s, 1, k - 1), SubSeq(s, k + 1, Len(s))>>

(***************************************************************************)
(* Python's re, for the patterns the directives build.  A compiled pattern  *)
(* is a literal matched under re.IGNORECASE, with or without the \b anchors *)
(* on both sides.  In regex mode the pattern text is compiled verbatim: the *)
(* enumerated regex patterns are made of letters and spaces (which match    *)
(* themselves) and of "(", an unbalanced group that re.compile rejects.     *)
(***************************************************************************)
\* re.compile(re.escape(text), flags), with \b on both sides for a keyword
CompileLiteral(text, wholeWord) == [ok |-> TRUE, lit |-> text, wb |-> wholeWord]

\* re.compile(text, flags); ok is FALSE where it raises re.error
CompileRegex(text) ==
    IF "(" \in Range(text) THEN [ok |-> FALSE, lit |-> text, wb |-> FALSE]
    ELSE [ok |-> TRUE, lit |-> text, wb |-> FALSE]

\* whether position k of s (1-based) holds a \w character
WordAt(s, k) == k \in DOMAIN s /\ IsWordChar(s[k])

\* \b before position k of s: exactly one of its two neighbours is \w
Boundary(s, k) == WordAt(s, k - 1) # WordAt(s, k)

\* whether pat matches s at position i
MatchAt(pat, s, i) ==
    /\ i + Len(pat.lit) - 1 <= Len(s)
    /\ Lower(SubSeq(s, i, i + Len(pat.lit) - 1)) = Lower(pat.lit)
    /\ pat.wb => Boundary(s, i) /\ Boundary(s, i + Len(pat.lit))

\* the start positions of the leftmost non-overlapping matches from i on
RECURSIVE MatchesFrom(_, _, _)
MatchesFrom(pat, s, i) ==
    IF i > Len(s) + 1 THEN <<>>
    ELSE IF MatchAt(pat, s, i)
         THEN <<i>> \o MatchesFrom(pat, s, i + Max(Len(pat.lit), 1))
         ELSE MatchesFrom(pat, s, i + 1)

\* pattern.findall(s): the matched texts, left to right
FindAll(pat, s) ==
    LET at == MatchesFrom(pat, s, 1)
    IN  [k \in DOMAIN at |-> SubSeq(s, at[k], at[k] + Len(pat.lit) - 1)]

\* the text built by substituting repl for the matches at the positions at
RECURSIVE SubstituteAt(_, _, _, _, _)
SubstituteAt(s, at, width, repl, from) ==
    IF at = <<>> THEN SubSeq(s, from, Len(s))
    ELSE SubSeq(s, from, Head(at) - 1) \o repl
         \o SubstituteAt(s, Tail(at), width, repl, Head(at) + width)

\* The replacement template of pattern.subn: a backslash that ends it is a
\* bad escape.  The enumerated replacements hold a backslash only there.
TemplateOk(repl) == ~(repl # <<>> /\ repl[Len(repl)] = "\\")

\* pattern.subn(repl, s): the new text and the count; the template is parsed
\* before the first match is looked for, and a bad one raises re.error
\* (ok is FALSE).
Subn(pat, repl, s) ==
    IF ~TemplateOk(repl) THEN [ok |-> FALSE, text |-> s, count |-> 0]
    ELSE LET at == MatchesFrom(pat, s, 1)
         IN  [ok |-> TRUE, text |-> SubstituteAt(s, at, Len(pat.lit), repl, 1),
              count |-> Len(at)]

(***************************************************************************)
(* The document model (python-docx's Document, as word_mcp.py reads it).    *)
(***************************************************************************)
\* a run's font: bold, italic, underline, and the attributes that
\* format_text_in_document sets
PlainStyle ==
    [bold |-> None, italic |-> None, underline |-> None, name |-> None,
     size |-> None, color |-> None, shd |-> None]
BoldStyle == [PlainStyle EXCEPT !.bold = Some(TRUE)]
ItalicStyle == [PlainStyle EXCEPT !.italic = Some(TRUE)]

\* a run: its text, its font, whether it holds a picture, and the field it
\* holds (<<>>, <<"PAGE">> or <<"TOC", levels>>).  link tells a hyperlink
\* from a run: a hyperlink stands among the runs of its paragraph and its
\* text is part of paragraph.text, but paragraph.runs does not hold it.
MkRun(text, style) ==
    [text |-> text, style |-> style, pic |-> FALSE, field |-> <<>>, link |-> FALSE]

\* a hyperlink with the text
MkLink(text) == [MkRun(text, PlainStyle) EXCEPT !.link = TRUE]

NoSpacing == [before |-> None, after |-> None, line |-> None, rule |-> None]

\* a paragraph: its runs and hyperlinks in their order, its style name, its
\* alignment and spacing
MkPara(runs, style, alignment) ==
    [kind |-> "p", runs |-> runs, style |-> style, alignment |-> alignment,
     spacing |-> NoSpacing]

\* Document.add_paragraph(text): no run at all for an empty text
NewPara(text) ==
    MkPara(IF text = <<>> THEN <<>> ELSE <<MkRun(text, PlainStyle)>>, "Normal", None)

\* paragraph.text: the texts of the runs and of the hyperlinks, in order
ParaText(para) == Concat([i \in DOMAIN para.runs |-> para.runs[i].text])

\* paragraph.runs: the runs, without the hyperlinks
Runs(para) == SelectSeq(para.runs, LAMBDA r : ~r.link)

\* the texts of the runs, in order
RunsText(para) == Concat([i \in DOMAIN Runs(para) |-> Runs(para)[i].text])

\* a cell: its paragraphs and the tables nested in it; span is the number of
\* grid columns the cell covers (more than one for a merged cell)
MkCell(paras, tables, span) == [paras |-> paras, tables |-> tables, span |-> span]

\* "\n".join(texts)
RECURSIVE JoinLines(_)
JoinLines(texts) ==
    IF texts = <<>> THEN <<>>
    ELSE IF Len(texts) = 1 THEN Head(texts)
    ELSE Head(texts) \o <<"\n">> \o JoinLines(Tail(texts))

\* cell.text: the texts of the cell's own paragraphs joined by newlines
CellText(cell) == JoinLines([i \in DOMAIN cell.paras |-> ParaText(cell.paras[i])])

\* a table: rows of cells
MkTable(rows, style) == [kind |-> "t", rows |-> rows, style |-> style]

RECURSIVE Repeat(_, _)
Repeat(x, n) == IF n <= 0 THEN <<>> ELSE <<x>> \o Repeat(x, n - 1)

\* row.cells: one entry per grid column, so a merged cell comes once for
\* every column it covers
RowCells(row) == Concat([i \in DOMAIN row |-> Repeat(row[i], row[i].span)])

\* len(table.columns)
TableCols(table) == IF table.rows = <<>> THEN 0 ELSE Len(RowCells(table.rows[1]))

\* a section: its header and footer paragraphs and its page geometry
\* a header or footer is a sequence of paragraphs, or Linked when the section
\* defines none and shows the previous section's
Linked == [linked |-> TRUE, paras |-> <<>>]
Defined(paras) == [linked |-> FALSE, paras |-> paras]

DefaultSection ==
    [header |-> Linked, footer |-> Linked, first_page_header |-> Linked,
     first_page_footer |-> Linked, orientation |-> "portrait",
     page_width |-> None, page_height |-> None,
     left_margin |-> None, right_margin |-> None,
     top_margin |-> None, bottom_margin |-> None]

MkDoc(body, sections) == [kind |-> "docx", body |-> body, sections |-> sections]

HeaderFooterFields == {"header", "first_page_header", "footer", "first_page_footer"}

\* section.header.paragraphs and the like: a Linked header or footer is the
\* previous section's; python-docx gives the first section a definition of
\* one empty paragraph when it has none
RECURSIVE HeaderFooterParas(_, _, _)
HeaderFooterParas(sections, k, field) ==
    IF ~sections[k][field].linked THEN sections[k][field].paras
    ELSE IF k = 1 THEN <<NewPara(<<>>)>>
    ELSE HeaderFooterParas(sections, k - 1, field)

\* the document after the fields of its sections have been read: the first
\* section now defines each of them
WithDefinitions(doc, fields) ==
    IF doc.sections = <<>> THEN doc
    ELSE [doc EXCEPT !.sections[1] =
            [f \in DOMAIN @ |->
                IF f \in fields /\ @[f].linked
                THEN Defined(<<NewPara(<<>>)>>) ELSE @[f]]]

\* Document(): what create_word_document saves, no body paragraph
NewDocument == MkDoc(<<>>, <<DefaultSection>>)

IsPara(b) == b.kind = "p"
IsTable(b) == b.kind = "t"

\* doc.paragraphs, doc.tables: the body's paragraphs and top-level tables
Paragraphs(doc) == SelectSeq(doc.body, IsPara)
Tables(doc) == SelectSeq(doc.body, IsTable)

\* the position in body of its k-th element of the given kind; 0 if none
RECURSIVE BodyIndexFrom(_, _, _, _)
BodyIndexFrom(body, kind, k, i) ==
    IF i > Len(body) THEN 0
    ELSE IF body[i].kind = kind
         THEN IF k = 1 THEN i ELSE BodyIndexFrom(body, kind, k - 1, i + 1)
         ELSE BodyIndexFrom(body, kind, k, i + 1)

\* where doc.paragraphs[k - 1] and doc.tables[k - 1] lie in the body
ParaPos(doc, k) == BodyIndexFrom(doc.body, "p", k, 1)
TablePos(doc, k) == BodyIndexFrom(doc.body, "t", k, 1)

\* x left at the end of s, where it was added
LeftAtEnd(s, i, x) == Append(s, x)

\* the sequence s with x put in after position i (0: in front)
InsertAfter(s, i, x) == SubSeq(s, 1, i) \o <<x>> \o SubSeq(s, i + 1, Len(s))

\* a removal that removes nothing
RemoveNothing(s, i) == s

\* the sequence s without its element at position i
RemoveAt(s, i) == SubSeq(s, 1, i - 1) \o SubSeq(s, i + 1, Len(s))

\* len(doc.inline_shapes): the pictures in the body's paragraphs
PicCount(doc) ==
    SumSeq([i \in DOMAIN doc.body |->
        IF IsPara(doc.body[i])
        THEN Cardinality({j \in DOMAIN doc.body[i].runs : doc.body[i].runs[j].pic})
        ELSE 0])

(***************************************************************************)
(* Responses.  A call gives back a JSON object (kind "json": its "status"   *)
(* field or None when it has none, whether it has a "message" string, its   *)
(* payload), or it ends in an exception that reaches the caller (kind       *)
(* "raise").                                                                *)
(***************************************************************************)
\* a float: a number, or NaN / an infinity (nan)
Float(v) == [nan |-> FALSE, v |-> v]
NaN == [nan |-> TRUE, v |-> 0]

Json(status, hasMessage, data) ==
    [kind |-> "json", status |-> status, hasMessage |-> hasMessage,
     hasError |-> FALSE, data |-> data]

Raise(exception) ==
    [kind |-> "raise", status |-> "none", hasMessage |-> FALSE, hasError |-> FALSE,
     data |-> exception]

\* {"status": "error", "message": ...} with or without "data": None
Error(message) == Json("error", TRUE, [message |-> message])

\* response_handler: json.dumps(..., allow_nan=False) raises ValueError on a
\* float that is NaN or an infinity.  floats: the float values of the payload.
response_handler(response, floats) ==
    IF \E f \in floats : f.nan THEN Raise("ValueError") ELSE response

\* the call does not come back
Hangs ==
    [kind |-> "hang", status |-> "none", hasMessage |-> FALSE, hasError |-> FALSE,
     data |-> None]

NoResp ==
    [kind |-> "none", status |-> "none", hasMessage |-> FALSE, hasError |-> FALSE,
     data |-> None]

Paths == {"a.docx", "b.docx"}

(***************************************************************************)
(* Directive texts.                                                         *)
(***************************************************************************)
S_regex == <<"r", "e", "g", "e", "x">>
S_keyword == <<"k", "e", "y", "w", "o", "r", "d">>
S_contains == <<"c", "o", "n", "t", "a", "i", "n", "s">>
S_raw == <<"r", "a", "w">>
S_tables == <<"t", "a", "b", "l", "e", "s">>
S_images == <<"i", "m", "a", "g", "e", "s">>
S_paragraphs == <<"p", "a", "r", "a", "g", "r", "a", "p", "h", "s">>
S_foo == <<"f", "o", "o">>
S_cat == <<"c", "a", "t">>
S_dog == <<"d", "o", "g">>
S_category == <<"c", "a", "t", "e", "g", "o", "r", "y">>
S_the_cat_sat == <<"t", "h", "e", " ", "c", "a", "t", " ", "s", "a", "t">>
S_Hello_ == <<"H", "e", "l", "l", "o", " ">>
S_world == <<"w", "o", "r", "l", "d">>
S_earth == <<"e", "a", "r", "t", "h">>

(***************************************************************************)
(* complex_query                                                            *)
(***************************************************************************)
SnippetLen == 50

\* text[:50] + "..." if len(text) > 50 else text
Snippet(text) ==
    IF Len(text) > SnippetLen
    THEN SubSeq(text, 1, SnippetLen) \o <<".", ".", ".">>
    ELSE text

\* the query's type and pattern (lines 1793-1799)
QueryParse(query) ==
    IF ":" \in Range(query)
    THEN LET parts == SplitFirst(query, ":")
         IN  [type |-> Strip(Lower(parts[1])), pattern |-> parts[2]]
    ELSE [type |-> S_raw, pattern |-> query]

TextQueryTypes == {S_regex, S_keyword, S_contains}

\* a keyword compiled like a contains pattern, without the \b anchors
QueryPatternUnanchored(q) ==
    IF q.type = S_regex THEN CompileRegex(q.pattern)
    ELSE CompileLiteral(q.pattern, FALSE)

\* the compiled pattern of a text query (lines 1809-1813)
QueryPattern(q) ==
    IF q.type = S_regex THEN CompileRegex(q.pattern)
    ELSE CompileLiteral(q.pattern, q.type = S_keyword)

HasMatches(detail) == detail.matches # <<>>

\* the details of the body paragraphs (lines 1820-1829)
ParagraphDetails(doc, pattern) ==
    LET ps == Paragraphs(doc)
        all == [i \in DOMAIN ps |->
                   LET text == Strip(ParaText(ps[i]))
                   IN  [type |-> "paragraph", at |-> <<i - 1>>,
                        text_snippet |-> Snippet(text),
                        matches |-> FindAll(pattern, text)]]
    IN  SelectSeq(all, HasMatches)

\* the details of the cells of the top-level tables, in row.cells order
\* (lines 1832-1843)
TableDetails(doc, pattern) ==
    LET ts == Tables(doc)
        all == Concat([t \in DOMAIN ts |->
                 Concat([r \in DOMAIN ts[t].rows |->
                   LET cells == RowCells(ts[t].rows[r])
                   IN  [c \in DOMAIN cells |->
                          LET text == Strip(CellText(cells[c]))
                          IN  [type |-> "table", at |-> <<t - 1, r - 1, c - 1>>,
                               text_snippet |-> Snippet(text),
                               matches |-> FindAll(pattern, text)]]])])
    IN  SelectSeq(all, HasMatches)

\* result["details"] of a text query
QueryDetails(doc, pattern) ==
    ParagraphDetails(doc, pattern) \o TableDetails(doc, pattern)

\* result["total"]: every detail adds len(matches)
QueryTotal(details) == SumSeq([i \in DOMAIN details |-> Len(details[i].matches)])

\* the whole handler, on the file stored at the path
complex_query(file, query) ==
    IF file.kind = "nofile" THEN Error("file not found")
    ELSE IF file.kind = "badfile" THEN Error("document cannot be parsed")
    ELSE
      LET q == QueryParse(query)
      IN  IF q.type \in TextQueryTypes
          THEN LET pattern == QueryPattern(q)
               IN  IF ~pattern.ok THEN Error("regular expression error")
                   ELSE LET details == QueryDetails(file, pattern)
                        IN  Json("success", FALSE,
                                 [query_type |-> q.type,
                                  total |-> QueryTotal(details),
                                  details |-> details, elements |-> None])
          ELSE IF q.type = S_raw
          THEN IF query = S_tables
               THEN Json("success", FALSE,
                         [query_type |-> q.type, total |-> 0, details |-> <<>>,
                          elements |-> [tables |-> Len(Tables(file))]])
               ELSE IF query = S_images
               THEN Json("success", FALSE,
                         [query_type |-> q.type, total |-> 0, details |-> <<>>,
                          elements |-> [images |-> PicCount(file)]])
               ELSE IF query = S_paragraphs
               THEN Json("success", FALSE,
                         [query_type |-> q.type, total |-> 0, details |-> <<>>,
                          elements |-> [paragraphs |-> Len(Paragraphs(file))]])
               ELSE Error("unsupported query type")
          ELSE Json("success", FALSE,
                    [query_type |-> q.type, total |-> 0, details |-> <<>>,
                     elements |-> None])

(***************************************************************************)
(* complex_replace                                                          *)
(***************************************************************************)
\* the default output path: the input's name with _modified (lines 1892-1894)
Modified(path) ==
    CASE path = "a.docx" -> "a_modified.docx"
      [] path = "b.docx" -> "b_modified.docx"
      [] OTHER -> "c_modified.docx"

AllPaths == Paths \cup {Modified(p) : p \in Paths}

\* The directive's type, pattern and replacement (lines 1902-1915):
\* "invalid" for a typed directive without "=", "ValueError" where
\* replace.split('=', 1) gives one part and the unpacking fails.
ReplaceParse(replace) ==
    IF ":" \in Range(replace)
    THEN LET parts == SplitFirst(replace, ":")
         IN  IF "=" \in Range(parts[2])
             THEN LET sides == SplitFirst(parts[2], "=")
                  IN  [ok |-> "ok", type |-> Lower(parts[1]), pattern |-> sides[1],
                       replacement |-> sides[2]]
             ELSE [ok |-> "invalid"]
    ELSE IF "=" \in Range(replace)
         THEN LET sides == SplitFirst(replace, "=")
              IN  [ok |-> "ok", type |-> S_contains, pattern |-> sides[1],
                   replacement |-> sides[2]]
         ELSE [ok |-> "ValueError"]

ReplaceTypes == {S_regex, S_keyword, S_contains}

\* the compiled pattern of a directive of one of the three types
\* (lines 1918-1924)
ReplacePattern(d) ==
    IF d.type = S_regex THEN CompileRegex(d.pattern)
    ELSE CompileLiteral(d.pattern, d.type = S_keyword)

\* process_run (lines 1932-1949) on one run: "ok" when it leaves the run as
\* it is, else the exception it ends in.  subn parses the template first.
\* With a match, line 1943 calls run._element._new(), which the run element
\* does not have (and addprevious returns None, so line 1944 would assign to
\* None): AttributeError, before anything of the run is changed.
process_run(run, pattern, replacement) ==
    IF run.text = <<>> THEN "ok"
    ELSE LET r == Subn(pattern, replacement, run.text)
         IN  IF ~r.ok THEN "re.error"
             ELSE IF r.count > 0 THEN "AttributeError"
             ELSE "ok"

\* the runs that process_table visits in a table, in order: per row and
\* row.cells entry the cell's paragraphs, then its nested tables
RECURSIVE TableRuns(_)
TableRuns(table) ==
    Concat([r \in DOMAIN table.rows |->
      LET cells == RowCells(table.rows[r])
      IN  Concat([c \in DOMAIN cells |->
            Concat([i \in DOMAIN cells[c].paras |-> Runs(cells[c].paras[i])])
            \o Concat([t \in DOMAIN cells[c].tables |->
                          TableRuns(cells[c].tables[t])])])])

ParasRuns(paras) == Concat([i \in DOMAIN paras |-> Runs(paras[i])])

\* the runs of a section's headers, then of its footers (lines 1976-1982)
SectionRuns(sections, k) ==
    ParasRuns(HeaderFooterParas(sections, k, "header"))
    \o ParasRuns(HeaderFooterParas(sections, k, "first_page_header"))
    \o ParasRuns(HeaderFooterParas(sections, k, "footer"))
    \o ParasRuns(HeaderFooterParas(sections, k, "first_page_footer"))

\* every run complex_replace passes to process_run, in order (lines 1956-1982)
VisitedRuns(doc) ==
    ParasRuns(Paragraphs(doc))
    \o Concat([t \in DOMAIN Tables(doc) |-> TableRuns(Tables(doc)[t])])
    \o Concat([k \in DOMAIN doc.sections |-> SectionRuns(doc.sections, k)])

\* the first outcome of process_run over the runs that is not "ok"
RECURSIVE FirstFailure(_, _, _)
FirstFailure(runs, pattern, replacement) ==
    IF runs = <<>> THEN "ok"
    ELSE LET o == process_run(Head(runs), pattern, replacement)
         IN  IF o # "ok" THEN o ELSE FirstFailure(Tail(runs), pattern, replacement)

\* The whole handler: <<response, disk after>>.  Nothing but the parse of
\* the pattern and the save is inside a try.
complex_replace(files, file_path, replace, output_path) ==
    LET out == IF output_path = None THEN Modified(file_path) ELSE output_path[1]
        file == files[file_path]
        d == ReplaceParse(replace)
    IN  IF file.kind = "nofile" THEN <<Error("file not found"), files>>
        ELSE IF file.kind = "badfile" THEN <<Error("document cannot be loaded"), files>>
        ELSE IF d.ok = "invalid" THEN <<Error("invalid replace format"), files>>
        ELSE IF d.ok = "ValueError" THEN <<Raise("ValueError"), files>>
        ELSE IF d.type \notin ReplaceTypes
        THEN <<Error("unsupported replace type"), files>>
        ELSE
          LET pattern == ReplacePattern(d)
          IN  IF ~pattern.ok
              THEN <<Error("regular expression error"), files>>
              ELSE
                LET o == FirstFailure(VisitedRuns(file), pattern, d.replacement)
                IN  IF o # "ok" THEN <<Raise(o), files>>
                    ELSE <<Json("success", FALSE,
                                [replace_count |-> 0, new_file |-> out,
                                 replacement_type |-> d.type]),
                           [files EXCEPT ![out] =
                               WithDefinitions(file, HeaderFooterFields)]>>

(***************************************************************************)
(* find_and_replace_text                                                    *)
(***************************************************************************)
\* the positions of the non-overlapping occurrences of sub in s from i on,
\* as str.count and str.replace take them (an empty sub occurs everywhere)
RECURSIVE StrPositions(_, _, _)
StrPositions(s, sub, i) ==
    IF i + Len(sub) - 1 > Len(s) THEN <<>>
    ELSE IF SubSeq(s, i, i + Len(sub) - 1) = sub
         THEN <<i>> \o StrPositions(s, sub, i + Max(Len(sub), 1))
         ELSE StrPositions(s, sub, i + 1)

\* str.count(sub), str.replace(sub, repl)
StrCount(s, sub) == Len(StrPositions(s, sub, 1))
StrReplace(s, sub, repl) == SubstituteAt(s, StrPositions(s, sub, 1), Len(sub), repl, 1)

\* The case-insensitive loop (lines 1164-1180) has no exit when find_text
\* is empty: pos is 0 at every turn and current_pos += pos + len(find_text)
\* never moves.
LoopHangs(full_text_lower, search_text, find_len) ==
    Contains(full_text_lower, search_text) /\ find_len = 0

\* new_text of the case-insensitive loop from offset current_pos (0-based)
\* on, for a find_text that is not empty; pos is found in the lowered text
RECURSIVE ReplaceLoop(_, _, _, _, _, _)
ReplaceLoop(full_text, full_text_lower, search_text, find_len, replace_text, current_pos) ==
    LET pos == FindFrom(SubSeq(full_text_lower, current_pos + 1, Len(full_text_lower)),
                        search_text, 1) - 1
    IN  IF pos = -1
        THEN SubSeq(full_text, current_pos + 1, Len(full_text))
        ELSE SubSeq(full_text, current_pos + 1, current_pos + pos) \o replace_text
             \o ReplaceLoop(full_text, full_text_lower, search_text, find_len,
                            replace_text, current_pos + pos + find_len)

\* what the loop adds to replace_count: one per turn that finds a match
RECURSIVE LoopCount(_, _, _, _)
LoopCount(full_text_lower, search_text, find_len, current_pos) ==
    LET pos == FindFrom(SubSeq(full_text_lower, current_pos + 1, Len(full_text_lower)),
                        search_text, 1) - 1
    IN  IF pos = -1 THEN 0
        ELSE 1 + LoopCount(full_text_lower, search_text, find_len,
                           current_pos + pos + find_len)

\* run.clear(): the run keeps its formatting and loses its content
ClearRun(run) == [run EXCEPT !.text = <<>>, !.pic = FALSE, !.field = <<>>]

\* a text that comes to stand in a hyperlink
AddLink(para, text) == [para EXCEPT !.runs = @ \o <<MkLink(text)>>]

\* paragraph.add_run(text): the run comes last in the paragraph
AddRun(para, text) == [para EXCEPT !.runs = @ \o <<MkRun(text, PlainStyle)>>]

\* whether the paragraph holds find_text (lines 1144-1152)
ParaHolds(para, find_text, match_case) ==
    IF match_case THEN Contains(ParaText(para), find_text)
    ELSE Contains(Lower(ParaText(para)), Lower(find_text))

\* whether the loop over this paragraph has no exit
ParaHangs(para, find_text, match_case) ==
    ~match_case /\ LoopHangs(Lower(ParaText(para)), Lower(find_text), Len(find_text))

\* One paragraph (lines 1141-1183, 1189-1231) whose loop ends: the paragraph
\* after.  Every run is cleared and one new run takes the whole new text.
ReplaceInPara(para, find_text, replace_text, match_case) ==
    LET full_text == ParaText(para)
        cleared == [para EXCEPT !.runs = [i \in DOMAIN @ |->
                        IF @[i].link THEN @[i] ELSE ClearRun(@[i])]]
    IN  IF ~ParaHolds(para, find_text, match_case) THEN para
        ELSE IF match_case
        THEN AddRun(cleared, StrReplace(full_text, find_text, replace_text))
        ELSE AddRun(cleared, ReplaceLoop(full_text, Lower(full_text), Lower(find_text),
                                         Len(find_text), replace_text, 0))

\* what the paragraph adds to replace_count
CountInPara(para, find_text, match_case) ==
    IF ~ParaHolds(para, find_text, match_case) THEN 0
    ELSE IF match_case THEN StrCount(ParaText(para), find_text)
    ELSE LoopCount(Lower(ParaText(para)), Lower(find_text), Len(find_text), 0)

\* the paragraph after k visits: a paragraph of a merged cell is visited
\* once per grid column the cell covers, since row.cells repeats the cell
RECURSIVE Visited(_, _, _, _, _)
Visited(para, k, find_text, replace_text, match_case) ==
    IF k = 0 THEN para
    ELSE ReplaceInPara(Visited(para, k - 1, find_text, replace_text, match_case),
                       find_text, replace_text, match_case)

\* what k visits of the paragraph add to replace_count
CountVisits(para, k, find_text, replace_text, match_case) ==
    SumSeq([j \in 1..k |->
              CountInPara(Visited(para, j - 1, find_text, replace_text, match_case),
                          find_text, match_case)])

\* a cell after the pass over its row (lines 1188-1231)
ReplaceInCell(cell, find_text, replace_text, match_case) ==
    [cell EXCEPT !.paras = [i \in DOMAIN @ |->
        Visited(@[i], cell.span, find_text, replace_text, match_case)]]

CountInCell(cell, find_text, replace_text, match_case) ==
    SumSeq([i \in DOMAIN cell.paras |->
        CountVisits(cell.paras[i], cell.span, find_text, replace_text, match_case)])

\* a top-level table after the tables' pass (lines 1186-1231)
ReplaceInTable(table, find_text, replace_text, match_case) ==
    [table EXCEPT !.rows = [r \in DOMAIN @ |-> [c \in DOMAIN @[r] |->
        ReplaceInCell(@[r][c], find_text, replace_text, match_case)]]]

CountInTable(table, find_text, replace_text, match_case) ==
    SumSeq([r \in DOMAIN table.rows |->
        SumSeq([c \in DOMAIN table.rows[r] |->
            CountInCell(table.rows[r][c], find_text, replace_text, match_case)])])

\* the paragraphs both passes visit: the body's and the top-level tables'
VisitedParas(body) ==
    Concat([b \in DOMAIN body |->
        IF IsPara(body[b]) THEN <<body[b]>>
        ELSE Concat([r \in DOMAIN body[b].rows |->
               Concat([c \in DOMAIN body[b].rows[r] |-> body[b].rows[r][c].paras])])])

\* the body after both passes: the paragraphs' (lines 1141-1183) and the
\* top-level tables' (lines 1186-1231)
ReplaceInBody(body, find_text, replace_text, match_case) ==
    [b \in DOMAIN body |->
        IF IsPara(body[b])
        THEN ReplaceInPara(body[b], find_text, replace_text, match_case)
        ELSE ReplaceInTable(body[b], find_text, replace_text, match_case)]

\* replace_count after both passes
CountInBody(body, find_text, replace_text, match_case) ==
    SumSeq([b \in DOMAIN body |->
        IF IsPara(body[b]) THEN CountInPara(body[b], find_text, match_case)
        ELSE CountInTable(body[b], find_text, replace_text, match_case)])

\* The whole handler: <<response, disk after>>.  match_whole_word is not
\* read anywhere in the function.
find_and_replace_text(files, file_path, find_text, replace_text, match_case, match_whole_word, save) ==
    LET file == files[file_path]
    IN  IF file.kind = "nofile" THEN <<Error("file not found"), files>>
        ELSE IF file.kind = "badfile" THEN <<Error("exception"), files>>
        ELSE IF \E i \in DOMAIN VisitedParas(file.body) :
                   ParaHangs(VisitedParas(file.body)[i], find_text, match_case)
        THEN <<Hangs, files>>
        ELSE <<Json("success", TRUE,
                    [replace_count |->
                        CountInBody(file.body, find_text, replace_text, match_case),
                     saved |-> save]),
               IF save
               THEN [files EXCEPT ![file_path] =
                        [file EXCEPT !.body =
                            ReplaceInBody(@, find_text, replace_text, match_case)]]
               ELSE files>>

(***************************************************************************)
(* The calls.  A call record keeps the operation, its arguments and the     *)
(* disk before it.                                                          *)
(***************************************************************************)
NoCall == [n |-> 0, op |-> "none", args |-> <<>>, before |-> <<>>]
Call(op, args) == [n |-> call.n + 1, op |-> op, args |-> args, before |-> disk]

\* a disk holding the given files at a.docx and b.docx and nothing elsewhere
Disk(a, b) ==
    [p \in AllPaths |-> IF p = "a.docx" THEN a ELSE IF p = "b.docx" THEN b ELSE NoFile]

(***************************************************************************)
(* Specification SpecQuery: complex_query over a document of paragraphs     *)
(* and one table.                                                           *)
(***************************************************************************)
S_cat_cat == S_cat \o <<" ">> \o S_cat
S_Cat_nl == <<" ", "C", "a", "t", "\n">>
S_CAT == <<"C", "A", "T">>
S_at == <<"a", "t">>

QueryTexts == {<<>>, S_cat, S_cat_cat, S_category, S_the_cat_sat, S_Cat_nl}
QueryWords == {S_cat, S_CAT, S_at}
MaxQueryParas == 2

\* a table of one row: one cell, spanning one or two grid columns
OneCellTable(text, span) ==
    MkTable(<< <<MkCell(<<NewPara(text)>>, <<>>, span)>> >>, "Table Grid")

QueryDocs ==
    { MkDoc(ps \o ts, <<DefaultSection>>) :
        ps \in SeqsUpTo({NewPara(t) : t \in QueryTexts}, MaxQueryParas),
        ts \in {<<>>} \cup { <<OneCellTable(t, k)>> : t \in QueryTexts, k \in {1, 2} } }

Queries ==
    { type \o <<":">> \o w : type \in {S_keyword, S_contains}, w \in QueryWords }

InitQuery ==
    /\ disk \in { Disk(d, NoFile) : d \in QueryDocs }
    /\ resp = NoResp
    /\ call = NoCall

Query ==
    /\ call.n = 0
    /\ \E query \in Queries :
          /\ resp' = complex_query(disk["a.docx"], query)
          /\ call' = Call("complex_query", [file_path |-> "a.docx", query |-> query])
    /\ UNCHANGED disk

NextQuery == Query

SpecQuery == InitQuery /\ [][NextQuery]_vars

\* the positions of text where w stands, letter case ignored
SubstringAt(text, w) ==
    { i \in 1..Len(text) :
        /\ i + Len(w) - 1 <= Len(text)
        /\ Lower(SubSeq(text, i, i + Len(w) - 1)) = Lower(w) }

\* those where it stands as a whole word
WholeWordAt(text, w) ==
    { i \in SubstringAt(text, w) :
        /\ i = 1 \/ ~IsWordChar(text[i - 1])
        /\ i + Len(w) > Len(text) \/ ~IsWordChar(text[i + Len(w)]) }

\* the texts of the cells of the top-level tables, each cell once
CellTexts(doc) ==
    LET ts == Tables(doc)
    IN  Concat([t \in DOMAIN ts |->
          Concat([r \in DOMAIN ts[t].rows |->
            [c \in DOMAIN ts[t].rows[r] |-> CellText(ts[t].rows[r][c])]])])

\* the same, each cell at every grid position it covers
GridTexts(doc) ==
    LET ts == Tables(doc)
    IN  Concat([t \in DOMAIN ts |->
          Concat([r \in DOMAIN ts[t].rows |->
            LET cells == RowCells(ts[t].rows[r])
            IN  [c \in DOMAIN cells |-> CellText(cells[c])]])])

ParaTexts(doc) == LET ps == Paragraphs(doc) IN [i \in DOMAIN ps |-> ParaText(ps[i])]

Queried == call.op = "complex_query"
QueryOf == QueryParse(call.args.query)
QueriedDoc == call.before[call.args.file_path]

\* C4: a contains: query over a document holding N occurrences of the text
\* in its paragraphs and table cells returns total = N and a details list of
\* exactly N entries.
C4_TotalAndDetailsAreN ==
    (Queried /\ QueryOf.type = S_contains) =>
        LET texts == ParaTexts(QueriedDoc) \o CellTexts(QueriedDoc)
            N == SumSeq([i \in DOMAIN texts |->
                            Cardinality(SubstringAt(texts[i], QueryOf.pattern))])
        IN  /\ resp.status = "success"
            /\ resp.data.total = N
            /\ Len(resp.data.details) = N

\* contains:cat over the one paragraph "cat cat": total 2, one detail entry
C4_TwoInOneParagraph ==
    /\ Queried
    /\ call.args.query = S_contains \o <<":">> \o S_cat
    /\ QueriedDoc.body = <<NewPara(S_cat_cat)>>
    /\ resp.data.total = 2
    /\ Len(resp.data.details) = 1

\* C7: keyword:<w> counts the occurrences of <w> that stand as a whole word
\* in a scanned text, contains:<w> counts every substring occurrence, and
\* both ignore letter case.  The scanned texts are the body paragraphs and
\* the cells of the top-level tables at each grid position.
C7_KeywordWholeWordContainsSubstring ==
    Queried =>
        LET texts == ParaTexts(QueriedDoc) \o GridTexts(QueriedDoc)
            w == QueryOf.pattern
            whole == SumSeq([i \in DOMAIN texts |-> Cardinality(WholeWordAt(texts[i], w))])
            any == SumSeq([i \in DOMAIN texts |-> Cardinality(SubstringAt(texts[i], w))])
        IN  /\ resp.status = "success"
            /\ QueryOf.type = S_keyword => resp.data.total = whole
            /\ QueryOf.type = S_contains => resp.data.total = any

\* keyword:CAT over "the cat sat" and "category" counts the first only
C7_CatNotCategory ==
    /\ Queried
    /\ call.args.query = S_keyword \o <<":">> \o S_CAT
    /\ ParaTexts(QueriedDoc) = <<S_the_cat_sat, S_category>>
    /\ Tables(QueriedDoc) = <<>>
    /\ resp.data.total = 1
    /\ Len(resp.data.details) = 1
    /\ resp.data.details[1].at = <<0>>

(***************************************************************************)
(* Specification SpecReplace: complex_replace and find_and_replace_text     *)
(* over documents of styled runs.                                           *)
(***************************************************************************)
S_egory == <<"e", "g", "o", "r", "y">>
S_Cat == <<"C", "a", "t">>
S_backslash == <<"\\">>

P_HelloWorld ==
    MkPara(<<MkRun(S_Hello_, BoldStyle), MkRun(S_world, ItalicStyle)>>, "Normal", None)
P_TheCatSat == NewPara(S_the_cat_sat)
P_CatEgory ==
    MkPara(<<MkRun(S_cat, PlainStyle), MkRun(S_egory, ItalicStyle)>>, "Normal", None)
P_NoRuns == MkPara(<<>>, "Normal", None)
P_Cat == MkPara(<<MkRun(S_Cat, BoldStyle)>>, "Normal", None)

\* "cat" in a hyperlink: a paragraph with a text and no run
P_Linked == MkPara(<<MkLink(S_cat)>>, "Normal", None)

ReplaceParas == {P_HelloWorld, P_TheCatSat, P_CatEgory, P_NoRuns, P_Cat, P_Linked}
MaxReplaceParas == 2

\* a first section whose header is defined and holds the paragraphs
SectionWithHeader(paras) == [DefaultSection EXCEPT !.header = Defined(paras)]

ReplaceDocs ==
    { MkDoc(ps \o ts, <<sec>>) :
        ps \in SeqsUpTo(ReplaceParas, MaxReplaceParas) \ {<<>>},
        ts \in {<<>>, <<OneCellTable(S_cat, 2)>>},
        sec \in {DefaultSection, SectionWithHeader(<<P_TheCatSat>>)} }

ReplaceDirectives ==
    { type \o <<":">> \o old \o <<"=">> \o new :
        type \in {S_contains, S_keyword, S_regex, S_foo},
        old \in {S_cat, S_world, S_dog},
        new \in {S_earth, S_backslash} }
    \cup { S_dog,                                  \* neither ":" nor "="
           S_contains \o <<":">> \o S_cat,          \* a type and no "="
           S_cat \o <<"=">> \o S_dog,               \* no type
           S_regex \o <<":", "(", "=">> \o S_dog }  \* a pattern that does not compile

InitReplace ==
    /\ disk \in { Disk(d, NoFile) : d \in ReplaceDocs }
    /\ resp = NoResp
    /\ call = NoCall

ComplexReplace ==
    /\ call.n = 0
    /\ \E replace \in ReplaceDirectives, output_path \in {None, Some("b.docx")} :
          LET r == complex_replace(disk, "a.docx", replace, output_path)
          IN  /\ resp' = r[1]
              /\ disk' = r[2]
              /\ call' = Call("complex_replace",
                              [file_path |-> "a.docx", replace |-> replace,
                               output_path |-> output_path])

FindAndReplace ==
    /\ call.n = 0
    /\ \E find_text \in {S_cat, S_CAT, S_world, S_dog, <<>>},
          replace_text \in {S_dog, <<>>, S_cat \o S_egory},
          match_case \in BOOLEAN, match_whole_word \in BOOLEAN, save \in BOOLEAN :
          LET r == find_and_replace_text(disk, "a.docx", find_text, replace_text,
                                         match_case, match_whole_word, save)
          IN  /\ resp' = r[1]
              /\ disk' = r[2]
              /\ call' = Call("find_and_replace_text",
                              [file_path |-> "a.docx", find_text |-> find_text,
                               replace_text |-> replace_text,
                               match_case |-> match_case,
                               match_whole_word |-> match_whole_word,
                               save |-> save])

NextReplace == ComplexReplace \/ FindAndReplace

SpecReplace == InitReplace /\ [][NextReplace]_vars

\* every paragraph of a table, cell by cell, nested tables included
RECURSIVE TableParas(_)
TableParas(table) ==
    Concat([r \in DOMAIN table.rows |->
      Concat([c \in DOMAIN table.rows[r] |->
        table.rows[r][c].paras
        \o Concat([t \in DOMAIN table.rows[r][c].tables |->
                      TableParas(table.rows[r][c].tables[t])])])])

\* every paragraph of the body and of the tables, in document order
BodyParas(doc) ==
    Concat([b \in DOMAIN doc.body |->
        IF IsPara(doc.body[b]) THEN <<doc.body[b]>> ELSE TableParas(doc.body[b])])

\* the paragraphs of the defined headers and footers
HeaderFooterDefined(doc) ==
    Concat([k \in DOMAIN doc.sections |->
        doc.sections[k].header.paras \o doc.sections[k].first_page_header.paras
        \o doc.sections[k].footer.paras \o doc.sections[k].first_page_footer.paras])

\* the run sequence of every paragraph of the body and the tables
RunSeqs(doc) == [i \in DOMAIN BodyParas(doc) |-> BodyParas(doc)[i].runs]

Replaced == call.op = "complex_replace"
Found == call.op = "find_and_replace_text"
Before == call.before[call.args.file_path]
DirectiveOf == ReplaceParse(call.args.replace)
OutPath ==
    IF call.args.output_path = None THEN Modified(call.args.file_path)
    ELSE call.args.output_path[1]

\* the directive has a known type, a pattern that compiles and a
\* replacement template that re accepts
WellFormed ==
    /\ DirectiveOf.ok = "ok"
    /\ DirectiveOf.type \in ReplaceTypes
    /\ ReplacePattern(DirectiveOf).ok
    /\ TemplateOk(DirectiveOf.replacement)

\* the directive's pattern matches in no paragraph of the document
MatchesNowhere ==
    LET paras == BodyParas(Before) \o HeaderFooterDefined(Before)
    IN  \A i \in DOMAIN paras :
            MatchesFrom(ReplacePattern(DirectiveOf), ParaText(paras[i]), 1) = <<>>

\* find_text occurs in no paragraph of the document
OccursNowhere ==
    /\ call.args.find_text # <<>>
    /\ \A i \in DOMAIN BodyParas(Before) :
          ~ParaHolds(BodyParas(Before)[i], call.args.find_text, call.args.match_case)

\* C5: a replace whose pattern matches nowhere in the document is a no-op.
\* complex_replace reports replace_count = 0 and saves a document with the
\* same run sequence in every paragraph; find_and_replace_text with a
\* find_text that does not occur reports replace_count = 0 and changes no run.
C5_NoMatchIsNoOp ==
    /\ (Replaced /\ DirectiveOf.ok = "ok" /\ DirectiveOf.type \in ReplaceTypes
          /\ ReplacePattern(DirectiveOf).ok /\ MatchesNowhere) =>
            /\ resp.status = "success"
            /\ resp.data.replace_count = 0
            /\ IsDoc(disk[OutPath])
            /\ RunSeqs(disk[OutPath]) = RunSeqs(Before)
    /\ (Found /\ OccursNowhere) =>
            /\ resp.status = "success"
            /\ resp.data.replace_count = 0
            /\ RunSeqs(disk[call.args.file_path]) = RunSeqs(Before)

\* keyword:cat=earth over the one paragraph of runs "cat" + "egory": the
\* paragraph holds no word cat, the call ends in an AttributeError
C5_KeywordInsideWordRaises ==
    /\ Replaced
    /\ call.args.replace = S_keyword \o <<":">> \o S_cat \o <<"=">> \o S_earth
    /\ Before.body = <<P_CatEgory>>
    /\ Before.sections = <<DefaultSection>>
    /\ MatchesNowhere
    /\ resp.kind = "raise"
    /\ resp.data = "AttributeError"
    /\ disk = call.before

\* the runs that hold text
WithText(runs) == SelectSeq(runs, LAMBDA r : r.text # <<>>)

\* the runs of a paragraph as a replace that keeps every style would leave
\* them: each run with its own style and its text after the substitution
Substituted(runs) ==
    [i \in DOMAIN runs |->
        [runs[i] EXCEPT !.text =
            Subn(ReplacePattern(DirectiveOf), DirectiveOf.replacement, @).text]]

\* C6: complex_replace keeps the style of every character outside a matched
\* span.  The call returns success; in the saved document every run in which
\* the pattern does not match keeps its text, style and position, and the
\* text that replaces a match is carried by a run with the style of the run
\* where the match began.
C6_StyleOutsideMatchKept ==
    (Replaced /\ WellFormed) =>
        /\ resp.status = "success"
        /\ IsDoc(disk[OutPath])
        /\ LET old == BodyParas(Before)
               new == BodyParas(disk[OutPath])
           IN  /\ Len(new) = Len(old)
               /\ \A i \in DOMAIN old :
                     WithText(new[i].runs) = WithText(Substituted(old[i].runs))

\* contains:world=earth over "Hello " (bold) + "world" (italic) ends in an
\* AttributeError and saves nothing
C6_HelloWorldRaises ==
    /\ Replaced
    /\ call.args.replace = S_contains \o <<":">> \o S_world \o <<"=">> \o S_earth
    /\ Before.body = <<P_HelloWorld>>
    /\ resp.kind = "raise"
    /\ resp.data = "AttributeError"
    /\ disk = call.before

(***************************************************************************)
(* compare_documents.  difflib.Differ().compare(a, b) walks the opcodes of  *)
(* SequenceMatcher(None, a, b): the lines of a matching block come out with *)
(* the prefix "  ", every other line of a with "- " and every other line of *)
(* b with "+ " (a replace block interleaves them and adds "? " lines, and   *)
(* keeps the lines of a, and those of b, in their order).  The handler      *)
(* reads the "+" lines and the "-" lines apart, so what it returns is       *)
(* decided by the matching blocks.  Below 200 lines nothing is junk.        *)
(***************************************************************************)
\* a common run in which a blank line matches nothing
RECURSIVE MatchLenBlankIsJunk(_, _, _, _, _, _)
MatchLenBlankIsJunk(a, b, i, j, ahi, bhi) ==
    IF i < ahi /\ j < bhi /\ a[i] = b[j] /\ a[i] # <<>>
    THEN 1 + MatchLenBlankIsJunk(a, b, i + 1, j + 1, ahi, bhi)
    ELSE 0

\* the length of the common run of a from i and b from j, inside the ranges
\* [i, ahi) and [j, bhi)
RECURSIVE MatchLen(_, _, _, _, _, _)
MatchLen(a, b, i, j, ahi, bhi) ==
    IF i < ahi /\ j < bhi /\ a[i] = b[j]
    THEN 1 + MatchLen(a, b, i + 1, j + 1, ahi, bhi)
    ELSE 0

\* SequenceMatcher.find_longest_match(alo, ahi, blo, bhi): the longest
\* matching block of a[alo:ahi] and b[blo:bhi]; of the longest ones the one
\* that starts earliest in a, and of those the one that starts earliest in b
find_longest_match(a, b, alo, ahi, blo, bhi) ==
    LET blocks == { <<i, j, MatchLen(a, b, i, j, ahi, bhi)>> :
                       i \in alo..(ahi - 1), j \in blo..(bhi - 1) }
        longest == { x \in blocks : \A y \in blocks : y[3] <= x[3] }
        first == { x \in longest :
                     \A y \in longest : x[1] < y[1] \/ (x[1] = y[1] /\ x[2] <= y[2]) }
    IN  IF blocks = {} THEN <<alo, blo, 0>> ELSE CHOOSE x \in first : TRUE

\* the longest matching block alone, without the blocks to its left and right
MatchedPairsLongestOnly(a, b, alo, ahi, blo, bhi) ==
    LET m == find_longest_match(a, b, alo, ahi, blo, bhi)
    IN  { <<m[1] + d, m[2] + d>> : d \in 0..(m[3] - 1) }

\* get_matching_blocks over a[alo:ahi] and b[blo:bhi]: the pairs <<i, j>> of
\* matched positions
RECURSIVE MatchedPairs(_, _, _, _, _, _)
MatchedPairs(a, b, alo, ahi, blo, bhi) ==
    LET m == find_longest_match(a, b, alo, ahi, blo, bhi)
    IN  IF m[3] = 0 THEN {}
        ELSE { <<m[1] + d, m[2] + d>> : d \in 0..(m[3] - 1) }
             \cup MatchedPairs(a, b, alo, m[1], blo, m[2])
             \cup MatchedPairs(a, b, m[1] + m[3], ahi, m[2] + m[3], bhi)

get_matching_blocks(a, b) == MatchedPairs(a, b, 1, Len(a) + 1, 1, Len(b) + 1)

\* the elements of s at the positions that are not in skip, in order
RECURSIVE Unmatched(_, _, _)
Unmatched(s, skip, i) ==
    IF i > Len(s) THEN <<>>
    ELSE (IF i \in skip THEN <<>> ELSE <<s[i]>>) \o Unmatched(s, skip, i + 1)

\* the "-" lines taken for the "+" lines
DifferAddedFromMinus(a, b) ==
    Unmatched(a, {x[1] : x \in get_matching_blocks(a, b)}, 1)

\* the "+" lines of differ.compare(a, b), without their prefix
DifferAdded(a, b) ==
    Unmatched(b, {x[2] : x \in get_matching_blocks(a, b)}, 1)

\* the "-" lines
DifferDeleted(a, b) ==
    Unmatched(a, {x[1] : x \in get_matching_blocks(a, b)}, 1)

\* what the handler keeps of a paragraph (lines 2207-2219)
Extract(para) ==
    [text |-> Strip(ParaText(para)),
     alignment |-> para.alignment,
     font_size |-> IF Runs(para) # <<>> THEN Runs(para)[1].style.size ELSE None]

FormatDiffers(p1, p2) == p1.alignment # p2.alignment \/ p1.font_size # p2.font_size

\* format_differences: position by position over the shorter length
\* (lines 2232-2242)
FormatDifferences(ps1, ps2) ==
    LET n == Min(Len(ps1), Len(ps2))
        all == [i \in 1..n |->
                  [index |-> i - 1,
                   differs |-> FormatDiffers(ps1[i], ps2[i]),
                   original_alignment |-> ps1[i].alignment,
                   modified_alignment |-> ps2[i].alignment,
                   original_font_size |-> ps1[i].font_size,
                   modified_font_size |-> ps2[i].font_size]]
    IN  SelectSeq(all, LAMBDA d : d.differs)

\* a JSON object that has no "status" member
Bare(hasError, data) ==
    [kind |-> "json", status |-> "missing", hasMessage |-> FALSE,
     hasError |-> hasError, data |-> data]

\* the whole handler (lines 2190-2244)
compare_documents(files, doc1_path, doc2_path) ==
    IF ~IsDoc(files[doc1_path]) \/ ~IsDoc(files[doc2_path])
    THEN Bare(TRUE, None)
    ELSE LET ps1 == [i \in DOMAIN Paragraphs(files[doc1_path]) |->
                        Extract(Paragraphs(files[doc1_path])[i])]
             ps2 == [i \in DOMAIN Paragraphs(files[doc2_path]) |->
                        Extract(Paragraphs(files[doc2_path])[i])]
             t1 == [i \in DOMAIN ps1 |-> ps1[i].text]
             t2 == [i \in DOMAIN ps2 |-> ps2[i].text]
         IN  Bare(FALSE,
                  [added_paragraphs |-> DifferAdded(t1, t2),
                   deleted_paragraphs |-> DifferDeleted(t1, t2),
                   modified_paragraphs |-> <<>>,
                   format_differences |-> FormatDifferences(ps1, ps2)])

(***************************************************************************)
(* Specification SpecDiff: compare_documents over two documents of up to    *)
(* MaxParas paragraphs.                                                     *)
(***************************************************************************)
S_A == <<"A">>
S_B == <<"B">>
S_Revenue_rose == <<"R", "e", "v", "e", "n", "u", "e", " ", "r", "o", "s", "e", ".">>
S_Costs_fell == <<"C", "o", "s", "t", "s", " ", "f", "e", "l", "l", ".">>
S_Costs_fell_more == <<"C", "o", "s", "t", "s", " ", "f", "e", "l", "l", " ", "m", "o", "r", "e", ".">>
S_Revenue_rose_significantly == <<"R", "e", "v", "e", "n", "u", "e", " ", "r", "o", "s", "e", " ", "s", "i", "g", "n", "i", "f", "i", "c", "a", "n", "t", "l", "y", ".">>

\* " A" centred, its first run in 12 pt
P_CentredA ==
    MkPara(<<MkRun(<<" ", "A">>, [PlainStyle EXCEPT !.size = Some(12)])>>, "Normal",
           Some("CENTER"))

DiffParas == {NewPara(S_A), NewPara(S_B), NewPara(<<>>), P_CentredA}

DiffSeqs == SeqsUpTo(DiffParas, MaxParas)

\* s from its last element to its first
Reversed(s) == [i \in DOMAIN s |-> s[Len(s) + 1 - i]]

\* the pairs of paragraph sequences: a sequence and itself with one
\* paragraph put in place of another, a sequence and itself in the opposite
\* order, and the example of two reports
DiffPairs ==
    UNION { { <<a, [a EXCEPT ![i] = p]>> : i \in DOMAIN a, p \in DiffParas } :
              a \in DiffSeqs }
    \cup { <<a, Reversed(a)>> : a \in DiffSeqs }
    \cup { << <<NewPara(S_Revenue_rose), NewPara(S_Costs_fell),
               NewPara(S_Revenue_rose_significantly)>>,
              <<NewPara(S_Revenue_rose), NewPara(S_Costs_fell_more),
               NewPara(S_Revenue_rose_significantly)>> >> }

InitDiff ==
    /\ disk \in { Disk(MkDoc(x[1], <<DefaultSection>>), MkDoc(x[2], <<DefaultSection>>)) :
                    x \in DiffPairs }
               \cup { Disk(MkDoc(<<NewPara(S_A)>>, <<DefaultSection>>), f) :
                        f \in {NoFile, BadFile} }
    /\ resp = NoResp
    /\ call = NoCall

Compare ==
    /\ call.n = 0
    /\ \E paths \in {<<"a.docx", "b.docx">>, <<"b.docx", "a.docx">>, <<"a.docx", "a.docx">>} :
          /\ resp' = compare_documents(disk, paths[1], paths[2])
          /\ call' = Call("compare_documents",
                          [doc1_path |-> paths[1], doc2_path |-> paths[2]])
    /\ UNCHANGED disk

NextDiff == Compare

SpecDiff == InitDiff /\ [][NextDiff]_vars

Compared == call.op = "compare_documents"
Doc1 == call.before[call.args.doc1_path]
Doc2 == call.before[call.args.doc2_path]

\* the paragraph texts as compare_documents reads them
ReadTexts(doc) ==
    LET ps == Paragraphs(doc) IN [i \in DOMAIN ps |-> Strip(ParaText(ps[i]))]

\* the positions where the two documents' texts differ
DifferAt == { i \in DOMAIN ReadTexts(Doc1) : ReadTexts(Doc1)[i] # ReadTexts(Doc2)[i] }

\* both are documents of as many paragraphs, whose texts differ at exactly
\* one position
OneSubstitution ==
    /\ IsDoc(Doc1) /\ IsDoc(Doc2)
    /\ Len(ReadTexts(Doc1)) = Len(ReadTexts(Doc2))
    /\ Cardinality(DifferAt) = 1

\* the position of the substitution
SubstitutedAt == CHOOSE i \in DifferAt : TRUE

\* the texts at the other positions are pairwise distinct
OthersDistinct ==
    \A i, j \in DOMAIN ReadTexts(Doc1) \ DifferAt :
        i # j => ReadTexts(Doc1)[i] # ReadTexts(Doc1)[j]

\* C8: compare_documents on a document and itself (the same paragraph
\* sequence on both sides, repeated and empty texts included) returns empty
\* added_paragraphs, deleted_paragraphs and format_differences lists.
C8_SelfCompareIsEmpty ==
    (Compared /\ IsDoc(Doc1) /\ IsDoc(Doc2) /\ Paragraphs(Doc1) = Paragraphs(Doc2)) =>
        /\ resp.kind = "json"
        /\ ~resp.hasError
        /\ resp.data.added_paragraphs = <<>>
        /\ resp.data.deleted_paragraphs = <<>>
        /\ resp.data.format_differences = <<>>

\* a document of four paragraphs, two of them blank and two of them equal,
\* compared with itself
C8_SelfCompareRepeatedAndBlank ==
    /\ Compared
    /\ call.args.doc1_path = call.args.doc2_path
    /\ IsDoc(Doc1)
    /\ Paragraphs(Doc1) = <<NewPara(S_A), NewPara(<<>>), P_CentredA, NewPara(<<>>)>>
    /\ resp.data.added_paragraphs = <<>>
    /\ resp.data.deleted_paragraphs = <<>>
    /\ resp.data.format_differences = <<>>

Rat(num, den) == [raises |-> FALSE, num |-> num, den |-> den]
ZeroDivision == [raises |-> TRUE, num |-> 0, den |-> 1]

\* a / b of two numbers that are not negative; ZeroDivisionError when b = 0
Quotient(a, b) == IF b = 0 THEN ZeroDivision ELSE Rat(a, b)

EnglishEnders == {".", "!", "?"}
ChineseEnders == {"U+3002", "U+FF01", "U+FF1F"}

\* re.split on a class of single characters: the pieces of text between the
\* separators, as ranges <<first, last>> of positions, from position i on
\* with the piece in hand starting at start
RECURSIVE SplitRanges(_, _, _, _)
SplitRanges(text, seps, start, i) ==
    IF i > Len(text) THEN << <<start, Len(text)>> >>
    ELSE IF text[i] \in seps
         THEN << <<start, i - 1>> >> \o SplitRanges(text, seps, i + 1, i + 1)
         ELSE SplitRanges(text, seps, start, i + 1)

\* [s for s in sentences if s.strip()]
NonBlank(text, ranges) ==
    SelectSeq(ranges, LAMBDA r : Strip(SubSeq(text, r[1], r[2])) # <<>>)

\* re.findall(r'\b\w+\b', text): the maximal runs of word characters, from
\* position i on
RECURSIVE WordsFrom(_, _)
WordsFrom(text, i) ==
    IF i > Len(text) THEN <<>>
    ELSE IF ~IsWordChar(text[i]) THEN WordsFrom(text, i + 1)
    ELSE LET stop == CHOOSE k \in i..Len(text) :
                        /\ \A m \in i..k : IsWordChar(text[m])
                        /\ k = Len(text) \/ ~IsWordChar(text[k + 1])
         IN  <<SubSeq(text, i, stop)>> \o WordsFrom(text, stop + 1)

Vowels == {"a", "e", "i", "o", "u", "y"}

\* count_syllables (lines 2342-2366): the runs of vowels, one less for a
\* final e, and never less than one
count_syllables(word) ==
    IF word = <<>> THEN 0
    ELSE LET w == Lower(word)
             runs == Cardinality({ i \in DOMAIN w :
                        w[i] \in Vowels /\ (i = 1 \/ w[i - 1] \notin Vowels) })
             count == IF w[Len(w)] = "e" THEN runs - 1 ELSE runs
         IN  Max(count, 1)

\* a score left as it is
Unclamped(score) == score

\* min(max(score, 0), 100)
Clamp(score) ==
    IF score.raises THEN score
    ELSE IF score.num < 0 THEN Rat(0, 1)
    ELSE IF score.num > 100 * score.den THEN Rat(100, 1)
    ELSE score

\* jieba.lcut over the sentence at the positions r of text: the tokens, as
\* ranges of positions, which partition the sentence.  cuts holds the
\* positions after which the segmenter cuts.
Lcut(text, r, cuts) ==
    LET ends == { k \in cuts : r[1] <= k /\ k < r[2] } \cup {r[2]}
        Prev(e) == CHOOSE b \in ends \cup {r[1] - 1} :
                      b < e /\ \A x \in ends : x < e => x <= b
    IN  { <<Prev(e) + 1, e>> : e \in ends }

\* the Chinese score (lines 2310-2322)
ChineseReadability(text, cuts) ==
    LET sentences == NonBlank(text, SplitRanges(text, ChineseEnders, 1, 1))
        chars == SumSeq([i \in DOMAIN sentences |->
                            sentences[i][2] - sentences[i][1] + 1])
        tokens == UNION { Lcut(text, sentences[i], cuts) : i \in DOMAIN sentences }
        words == Cardinality(tokens)
        unique == Cardinality({ SubSeq(text, t[1], t[2]) : t \in tokens })
        avg_sentence_length == Quotient(chars, Len(sentences))
        lexical_diversity == IF words # 0 THEN Quotient(unique, words) ELSE Rat(0, 1)
    IN  IF sentences = <<>> THEN Rat(0, 1)
        ELSE IF avg_sentence_length.raises \/ lexical_diversity.raises
        THEN ZeroDivision
        ELSE Clamp(Rat((100 * avg_sentence_length.den - avg_sentence_length.num)
                          * lexical_diversity.den
                       + 100 * lexical_diversity.num * avg_sentence_length.den,
                       2 * avg_sentence_length.den * lexical_diversity.den))

\* the English score (lines 2326-2339)
EnglishReadability(text) ==
    LET sentences == NonBlank(text, SplitRanges(text, EnglishEnders, 1, 1))
        words == WordsFrom(Lower(text), 1)
        syllables == SumSeq([i \in DOMAIN words |-> count_syllables(words[i])])
        avg_sentence_length == Quotient(Len(words), Len(sentences))
        avg_syllables_per_word ==
            IF words # <<>> THEN Quotient(syllables, Len(words)) ELSE Rat(0, 1)
    IN  IF sentences = <<>> THEN Rat(0, 1)
        ELSE IF avg_sentence_length.raises \/ avg_syllables_per_word.raises
        THEN ZeroDivision
        ELSE Clamp(Rat(206835 * avg_sentence_length.den * avg_syllables_per_word.den
                       - 1015 * avg_sentence_length.num * avg_syllables_per_word.den
                       - 84600 * avg_syllables_per_word.num * avg_sentence_length.den,
                       1000 * avg_sentence_length.den * avg_syllables_per_word.den))

\* avg_sentence_length as calculate_readability has it (lines 2315 and
\* 2334): over the sentences that are not blank, the characters per sentence
\* of a Chinese text and the words per sentence of an English one
avg_sentence_length(text, is_chinese) ==
    IF is_chinese
    THEN LET sentences == NonBlank(text, SplitRanges(text, ChineseEnders, 1, 1))
         IN  Quotient(SumSeq([i \in DOMAIN sentences |->
                                sentences[i][2] - sentences[i][1] + 1]),
                      Len(sentences))
    ELSE LET sentences == NonBlank(text, SplitRanges(text, EnglishEnders, 1, 1))
         IN  Quotient(Len(WordsFrom(Lower(text), 1)), Len(sentences))

\* calculate_readability (lines 2297-2339); cuts is the segmenter's choice
calculate_readability(text, is_chinese, cuts) ==
    IF text = <<>> THEN Rat(0, 1)
    ELSE IF is_chinese THEN ChineseReadability(text, cuts)
    ELSE EnglishReadability(text)

(***************************************************************************)
(* Specification SpecRead: calculate_readability on every text of up to     *)
(* MaxLen characters, in both modes, under every segmentation.              *)
(***************************************************************************)
ReadChars == {"a", "b", "e", " ", ".", "U+3002"}

\* what a function gives back to the code that calls it
Returned(value) ==
    [kind |-> IF value.raises THEN "raise" ELSE "value", status |-> "none",
     hasMessage |-> FALSE, hasError |-> FALSE, data |-> value]

InitRead ==
    /\ disk = Disk(NoFile, NoFile)
    /\ resp = NoResp
    /\ call = NoCall

Readability ==
    /\ call.n = 0
    /\ \E text \in SeqsUpTo(ReadChars, MaxLen), is_chinese \in BOOLEAN :
         \E cuts \in IF is_chinese THEN SUBSET (1..(Len(text) - 1)) ELSE {{}} :
          /\ resp' = Returned(calculate_readability(text, is_chinese, cuts))
          /\ call' = Call("calculate_readability",
                          [text |-> text, is_chinese |-> is_chinese, cuts |-> cuts])
    /\ UNCHANGED disk

NextRead == Readability

SpecRead == InitRead /\ [][NextRead]_vars

Scored == call.op = "calculate_readability"

\* no sentence of the text holds anything but white space
NoSentence ==
    \A i \in DOMAIN call.args.text :
        \/ IsSpace(call.args.text[i])
        \/ call.args.text[i] \in
              (IF call.args.is_chinese THEN ChineseEnders ELSE EnglishEnders)

\* C10: calculate_readability never raises, returns a score in [0, 100] for
\* every text in both modes, and returns exactly 0 for the empty text and
\* for a text with no non-blank sentence.
C10_ScoreInRange ==
    Scored =>
        /\ resp.kind = "value"
        /\ resp.data.den > 0
        /\ 0 <= resp.data.num
        /\ resp.data.num <= 100 * resp.data.den
        /\ NoSentence => resp.data.num = 0

\* the English score of "aba.", one word of two syllables: 36.62
C10_ScoreOfAba ==
    /\ Scored
    /\ call.args.text = <<"a", "b", "a", ".">>
    /\ ~call.args.is_chinese
    /\ resp.kind = "value"
    /\ resp.data.num * 1000 = 36620 * resp.data.den


(***************************************************************************)
(* The tools that write a document.  Each is <<response, disk after>>.     *)
(***************************************************************************)
\* a valid paragraph_index (0-based) of the document
ValidIndex(doc, paragraph_index) ==
    paragraph_index >= 0 /\ paragraph_index < Len(Paragraphs(doc))

\* the 1-based position that Python's list[k] reads in a list of n items;
\* 0 where it raises IndexError
PyIndex(n, k) ==
    IF k >= 0 /\ k < n THEN k + 1
    ELSE IF k < 0 /\ -k <= n THEN n + k + 1
    ELSE 0

\* the document with the paragraph at paragraph_index (0-based) replaced
SetPara(doc, paragraph_index, para) ==
    [doc EXCEPT !.body[ParaPos(doc, paragraph_index + 1)] = para]

\* alignment_map (lines 223-228)
AlignmentMap(alignment) ==
    CASE alignment = "left" -> Some("LEFT")
      [] alignment = "center" -> Some("CENTER")
      [] alignment = "right" -> Some("RIGHT")
      [] alignment = "justify" -> Some("JUSTIFY")
      [] OTHER -> None

\* the style doc.add_heading gives for a level
HeadingStyle(level) ==
    CASE level = 1 -> "Heading 1"
      [] level = 2 -> "Heading 2"
      [] level = 3 -> "Heading 3"
      [] level = 4 -> "Heading 4"
      [] level = 5 -> "Heading 5"
      [] level = 6 -> "Heading 6"
      [] level = 7 -> "Heading 7"
      [] level = 8 -> "Heading 8"
      [] level = 9 -> "Heading 9"
      [] OTHER -> "Title"

\* the whole handler (lines 187-283)
add_text_to_document(files, file_path, text, is_heading, heading_level, alignment, paragraph_index, direction) ==
    LET file == files[file_path]
    IN  IF file.kind = "nofile" THEN <<Error("file not found"), files>>
        ELSE IF is_heading /\ (heading_level < 1 \/ heading_level > 9)
        THEN <<Error("heading level"), files>>
        ELSE IF direction \notin {"front", "behind"}
        THEN <<Error("direction"), files>>
        ELSE IF AlignmentMap(alignment) = None
        THEN <<Error("alignment"), files>>
        ELSE IF file.kind = "badfile" THEN <<Error("exception"), files>>
        ELSE IF paragraph_index # -1 /\ ~ValidIndex(file, paragraph_index)
        THEN <<Error("paragraph index"), files>>
        ELSE
          LET new_paragraph ==
                  [NewPara(text) EXCEPT
                      !.style = IF is_heading THEN HeadingStyle(heading_level) ELSE @,
                      !.alignment = AlignmentMap(alignment)]
              target == ParaPos(file, paragraph_index + 1)
              body == IF paragraph_index = -1 THEN Append(file.body, new_paragraph)
                      ELSE IF direction = "front"
                      THEN InsertAfter(file.body, target - 1, new_paragraph)
                      ELSE InsertAfter(file.body, target, new_paragraph)
          IN  <<Json("success", TRUE, None),
                [files EXCEPT ![file_path] = [file EXCEPT !.body = body]]>>

\* highlight_color_map (lines 320-332); "" for a name it does not hold
HighlightNames ==
    {<<"y", "e", "l", "l", "o", "w">>,
     <<"g", "r", "e", "e", "n">>,
     <<"b", "l", "u", "e">>,
     <<"r", "e", "d">>,
     <<"p", "i", "n", "k">>,
     <<"t", "u", "r", "q", "u", "o", "i", "s", "e">>,
     <<"v", "i", "o", "l", "e", "t">>,
     <<"d", "a", "r", "k", "b", "l", "u", "e">>,
     <<"t", "e", "a", "l">>,
     <<"d", "a", "r", "k", "r", "e", "d">>,
     <<"d", "a", "r", "k", "g", "r", "e", "e", "n">>}

HighlightColorMap(name) ==
    CASE name = <<"y", "e", "l", "l", "o", "w">> -> "FFFF00"
      [] name = <<"g", "r", "e", "e", "n">> -> "00FF00"
      [] name = <<"b", "l", "u", "e">> -> "0000FF"
      [] name = <<"r", "e", "d">> -> "FF0000"
      [] name = <<"p", "i", "n", "k">> -> "FFC0CB"
      [] name = <<"t", "u", "r", "q", "u", "o", "i", "s", "e">> -> "40E0D0"
      [] name = <<"v", "i", "o", "l", "e", "t">> -> "EE82EE"
      [] name = <<"d", "a", "r", "k", "b", "l", "u", "e">> -> "00008B"
      [] name = <<"t", "e", "a", "l">> -> "008080"
      [] name = <<"d", "a", "r", "k", "r", "e", "d">> -> "8B0000"
      [] name = <<"d", "a", "r", "k", "g", "r", "e", "e", "n">> -> "006400"
      [] OTHER -> ""

\* str.upper() on the characters of a colour
UpperChar(c) ==
    CASE c = "a" -> "A"
      [] c = "b" -> "B"
      [] c = "c" -> "C"
      [] c = "d" -> "D"
      [] c = "e" -> "E"
      [] c = "f" -> "F"
      [] c = "r" -> "R"
      [] OTHER -> c

HexDigits ==
    {"0", "1", "2", "3", "4", "5", "6", "7", "8", "9", "A", "B", "C", "D", "E", "F"}

\* str.lstrip('#')
RECURSIVE LStripHash(_)
LStripHash(s) == IF s # <<>> /\ Head(s) = "#" THEN LStripHash(Tail(s)) ELSE s

\* the colour as the six hexadecimal digits the run gets, or None where
\* lines 388-399 raise ValueError
ParseColor(font_color) ==
    LET up == [i \in DOMAIN LStripHash(font_color) |-> UpperChar(LStripHash(font_color)[i])]
        six == IF Len(up) = 3 THEN <<up[1], up[1], up[2], up[2], up[3], up[3]>> ELSE up
    IN  IF Len(six) = 6 /\ Range(six) \subseteq HexDigits THEN Some(six) ELSE None

\* the font of one run after lines 372-408; an argument that is None, empty
\* or zero is not applied, bold, italic and underline always are
FormatRun(run, font_name, font_size, bold, italic, underline, font_color, highlight_color) ==
    [run EXCEPT
        !.style.name = IF font_name \notin {None, Some(<<>>)} THEN font_name ELSE @,
        !.style.size = IF font_size \notin {None, Some(0)} THEN font_size ELSE @,
        !.style.bold = bold,
        !.style.italic = italic,
        !.style.underline = underline,
        !.style.color = IF font_color \notin {None, Some(<<>>)}
                        THEN ParseColor(font_color[1]) ELSE @,
        !.style.shd = IF highlight_color \notin {None, Some(<<>>)}
                      THEN Some(HighlightColorMap(Lower(highlight_color[1]))) ELSE @]

\* the whole handler (lines 287-420); bold, italic and underline are
\* None, Some(TRUE) or Some(FALSE).  A paragraph that has a text and no run
\* loses all its children, its properties among them, and gets one run with
\* the text (lines 360-368); the hyperlinks of another paragraph stay as
\* they are.
format_text_in_document(files, file_path, paragraph_index, font_name, font_size, bold, italic, underline, font_color, highlight_color) ==
    LET file == files[file_path]
    IN  IF file.kind = "nofile" THEN <<Error("file not found"), files>>
        ELSE IF highlight_color \notin {None, Some(<<>>)}
                /\ Lower(highlight_color[1]) \notin HighlightNames
        THEN <<Error("highlight colour"), files>>
        ELSE IF file.kind = "badfile" THEN <<Error("exception"), files>>
        ELSE IF ~ValidIndex(file, paragraph_index)
        THEN <<Error("paragraph index"), files>>
        ELSE
          LET paragraph == Paragraphs(file)[paragraph_index + 1]
              withRun == IF Runs(paragraph) = <<>>
                         THEN NewPara(ParaText(paragraph)) ELSE paragraph
          IN  IF Strip(ParaText(paragraph)) = <<>>
              THEN <<Json("warning", TRUE, None), files>>
              ELSE IF font_color \notin {None, Some(<<>>)}
                      /\ ParseColor(font_color[1]) = None
              THEN <<Error("font colour"), files>>
              ELSE <<Json("success", TRUE, None),
                     [files EXCEPT ![file_path] =
                        SetPara(file, paragraph_index,
                            [withRun EXCEPT !.runs =
                                [i \in DOMAIN @ |->
                                    IF @[i].link THEN @[i]
                                    ELSE FormatRun(@[i], font_name, font_size, bold,
                                                   italic, underline, font_color,
                                                   highlight_color)]])]>>

\* spacing_rule_map (lines 453-457) with what the line_spacing setter makes
\* of it
SpacingRules == {"multiple", "exact", "atLeast"}

\* the whole handler (lines 424-502); the spacings are None or Some(float),
\* and Pt() of a NaN raises ValueError
set_paragraph_spacing(files, file_path, paragraph_index, before_spacing, after_spacing, line_spacing, line_spacing_rule) ==
    LET file == files[file_path]
        given == {x \in {before_spacing, after_spacing, line_spacing} : x # None}
    IN  IF file.kind = "nofile" THEN <<Error("file not found"), files>>
        ELSE IF line_spacing_rule \notin SpacingRules
        THEN <<Error("line spacing rule"), files>>
        ELSE IF file.kind = "badfile" THEN <<Error("exception"), files>>
        ELSE IF ~ValidIndex(file, paragraph_index)
        THEN <<Error("paragraph index"), files>>
        ELSE IF \E x \in given : x[1].nan THEN <<Error("exception"), files>>
        ELSE
          LET paragraph == Paragraphs(file)[paragraph_index + 1]
              spacing ==
                [before |-> IF before_spacing # None
                            THEN Some(before_spacing[1].v) ELSE paragraph.spacing.before,
                 after |-> IF after_spacing # None
                           THEN Some(after_spacing[1].v) ELSE paragraph.spacing.after,
                 line |-> IF line_spacing # None
                          THEN Some(line_spacing[1].v) ELSE paragraph.spacing.line,
                 rule |-> IF line_spacing # None
                          THEN Some(line_spacing_rule) ELSE paragraph.spacing.rule]
          IN  <<Json("success", TRUE, None),
                [files EXCEPT ![file_path] =
                    SetPara(file, paragraph_index,
                            [paragraph EXCEPT !.spacing = spacing])]>>


\* what insert_image finds at image_path: nothing, a file that is no image
\* (add_picture raises on it), or an image
ImageFiles == {"missing", "notimage", "image"}

\* the whole handler (lines 506-584); width and height are None or
\* Some(float), Cm() of a NaN raises ValueError.  Only after_paragraph >=
\* len(doc.paragraphs) is refused: a negative one other than -1 indexes the
\* paragraphs from the end or raises IndexError.
insert_image(files, file_path, image, width, height, after_paragraph) ==
    LET file == files[file_path]
        given == {x \in {width, height} : x # None /\ x # Some(Float(0))}
    IN  IF file.kind = "nofile" THEN <<Error("file not found"), files>>
        ELSE IF image = "missing" THEN <<Error("image not found"), files>>
        ELSE IF file.kind = "badfile" THEN <<Error("exception"), files>>
        ELSE IF after_paragraph >= Len(Paragraphs(file))
        THEN <<Error("paragraph index"), files>>
        ELSE IF after_paragraph # -1 /\ PyIndex(Len(Paragraphs(file)), after_paragraph) = 0
        THEN <<Error("exception"), files>>
        ELSE IF (\E x \in given : x[1].nan) \/ image = "notimage"
        THEN <<Error("exception"), files>>
        ELSE
          LET picture == [MkRun(<<>>, PlainStyle) EXCEPT !.pic = TRUE]
              k == PyIndex(Len(Paragraphs(file)), after_paragraph)
              body == IF after_paragraph = -1
                      THEN Append(file.body,
                                  [NewPara(<<>>) EXCEPT !.runs = <<picture>>])
                      ELSE [file.body EXCEPT ![ParaPos(file, k)].runs =
                                Append(@, picture)]
          IN  <<Json("success", TRUE, None),
                [files EXCEPT ![file_path] = [file EXCEPT !.body = body]]>>

\* the table styles of the default template that the model names
TableStyles == {"Table Grid", "Normal Table"}

\* _Cell.text = text: the cell's content becomes one paragraph of one run
SetCellText(cell, text) ==
    [cell EXCEPT !.paras = <<MkPara(<<MkRun(text, PlainStyle)>>, "Normal", None)>>,
                 !.tables = <<>>]

\* doc.add_table(rows, cols) with the data filled in (lines 639-645): data
\* is a sequence of rows of texts, cut to the table's size
NewTable(rows, cols, data, style) ==
    MkTable([i \in 1..rows |->
               [j \in 1..cols |->
                  IF i <= Len(data) /\ j <= Len(data[i])
                  THEN SetCellText(MkCell(<<>>, <<>>, 1), data[i][j])
                  ELSE MkCell(<<NewPara(<<>>)>>, <<>>, 1)]],
            style)

\* the whole handler (lines 588-666)
insert_table(files, file_path, rows, cols, data, after_paragraph, style) ==
    LET file == files[file_path]
    IN  IF file.kind = "nofile" THEN <<Error("file not found"), files>>
        ELSE IF rows <= 0 \/ cols <= 0 THEN <<Error("rows and cols"), files>>
        ELSE IF file.kind = "badfile" THEN <<Error("exception"), files>>
        ELSE IF after_paragraph >= Len(Paragraphs(file))
        THEN <<Error("paragraph index"), files>>
        ELSE IF after_paragraph # -1 /\ PyIndex(Len(Paragraphs(file)), after_paragraph) = 0
        THEN <<Error("exception"), files>>
        ELSE IF style \notin TableStyles THEN <<Error("exception"), files>>
        ELSE
          LET table == NewTable(rows, cols, data, style)
              k == PyIndex(Len(Paragraphs(file)), after_paragraph)
              body == IF after_paragraph = -1 THEN Append(file.body, table)
                      ELSE InsertAfter(file.body, ParaPos(file, k), table)
          IN  <<Json("success", TRUE,
                     [rows |-> rows, cols |-> cols,
                      table_index |-> Len(Tables(file))]),
                [files EXCEPT ![file_path] = [file EXCEPT !.body = body]]>>

\* the index in the row of the cell that covers grid column col (1-based);
\* 0 when the row has no such column
RECURSIVE CellAt(_, _, _)
CellAt(row, col, i) ==
    IF i > Len(row) THEN 0
    ELSE IF col <= row[i].span THEN i
    ELSE CellAt(row, col - row[i].span, i + 1)

\* the whole handler (lines 670-736); table.cell(row, col) is the cell that
\* covers the grid position
edit_table_cell(files, file_path, table_index, row, col, text) ==
    LET file == files[file_path]
    IN  IF file.kind = "nofile" THEN <<Error("file not found"), files>>
        ELSE IF file.kind = "badfile" THEN <<Error("exception"), files>>
        ELSE IF table_index < 0 \/ table_index >= Len(Tables(file))
        THEN <<Error("table index"), files>>
        ELSE
          LET table == Tables(file)[table_index + 1]
          IN  IF row < 0 \/ row >= Len(table.rows)
              THEN <<Error("row index"), files>>
              ELSE IF col < 0 \/ col >= TableCols(table)
              THEN <<Error("column index"), files>>
              ELSE IF CellAt(table.rows[row + 1], col + 1, 1) = 0
              THEN <<Error("exception"), files>>
              ELSE
                LET c == CellAt(table.rows[row + 1], col + 1, 1)
                IN  <<Json("success", TRUE,
                           [table_index |-> table_index, row |-> row, col |-> col,
                            new_text |-> text]),
                      [files EXCEPT ![file_path] =
                          [file EXCEPT
                              !.body[TablePos(file, table_index + 1)].rows[row + 1][c] =
                                  SetCellText(@, text)]]>>

\* the whole handler (lines 1029-1102): the runs are emptied, paragraph.text
\* = "" leaves one empty run and no hyperlink where there was any run, and
\* the new text comes in a run of its own; style and alignment stay
edit_paragraph_in_document(files, file_path, paragraph_index, new_text, save) ==
    LET file == files[file_path]
    IN  IF file.kind = "nofile" THEN <<Error("file not found"), files>>
        ELSE IF file.kind = "badfile" THEN <<Error("exception"), files>>
        ELSE IF ~ValidIndex(file, paragraph_index)
        THEN <<Error("paragraph index"), files>>
        ELSE
          LET paragraph == Paragraphs(file)[paragraph_index + 1]
              emptied == IF Runs(paragraph) # <<>>
                         THEN [paragraph EXCEPT !.runs = <<MkRun(<<>>, PlainStyle)>>]
                         ELSE paragraph
          IN  <<Json("success", TRUE,
                     [paragraph_index |-> paragraph_index, new_text |-> new_text,
                      saved |-> save]),
                IF save
                THEN [files EXCEPT ![file_path] =
                        SetPara(file, paragraph_index, AddRun(emptied, new_text))]
                ELSE files>>

\* the whole handler (lines 1254-1312)
delete_paragraph(files, file_path, paragraph_index, save) ==
    LET file == files[file_path]
    IN  IF file.kind = "nofile" THEN <<Error("file not found"), files>>
        ELSE IF file.kind = "badfile" THEN <<Error("exception"), files>>
        ELSE IF ~ValidIndex(file, paragraph_index)
        THEN <<Error("paragraph index"), files>>
        ELSE <<Json("success", TRUE,
                    [paragraph_index |-> paragraph_index, saved |-> save]),
               IF save
               THEN [files EXCEPT ![file_path] =
                       [file EXCEPT !.body =
                           RemoveAt(@, ParaPos(file, paragraph_index + 1))]]
               ELSE files>>


\* element.addnext(other) on the body: the element at position from comes
\* to stand right after the one at position to; nothing moves when the two
\* are the same element
MoveAfter(body, from, to) ==
    IF from = to THEN body
    ELSE InsertAfter(RemoveAt(body, from), IF to > from THEN to - 1 ELSE to, body[from])

\* the title paragraph of the table of contents (lines 1351, 1360-1363)
TocHeading(title) == MkPara(<<MkRun(title, PlainStyle)>>, "Heading 1", None)

\* the paragraph of the TOC field (lines 1366, 1378-1391)
TocPara(levels) ==
    MkPara(<<[MkRun(<<>>, PlainStyle) EXCEPT !.field = <<"TOC", levels>>]>>,
           "Normal", None)

\* the body after lines 1348-1363: the title paragraph is appended and, for
\* after_paragraph = 0, the document's second paragraph is moved behind it;
\* otherwise it is put after the paragraph named
TocTitled(body, title, after_paragraph) ==
    LET n == Len(SelectSeq(body, IsPara))
    IN  IF title = <<>> THEN body
        ELSE IF after_paragraph = 0
        THEN LET b1 == Append(body, TocHeading(title))
             IN  MoveAfter(b1, BodyIndexFrom(b1, "p", 2, 1), Len(b1))
        ELSE InsertAfter(body, BodyIndexFrom(body, "p", PyIndex(n, after_paragraph), 1),
                         TocHeading(title))

\* the body after lines 1366-1376: the TOC paragraph is appended and moved
\* behind doc.paragraphs[1], doc.paragraphs[after_paragraph + 1] or the
\* paragraph named
TocPlaced(body, title, levels, after_paragraph) ==
    LET b3 == Append(TocTitled(body, title, after_paragraph), TocPara(levels))
        n3 == Len(SelectSeq(b3, IsPara))
    IN  IF title # <<>>
        THEN IF after_paragraph = 0
             THEN MoveAfter(b3, Len(b3), BodyIndexFrom(b3, "p", 2, 1))
             ELSE MoveAfter(b3, Len(b3),
                            BodyIndexFrom(b3, "p", PyIndex(n3, after_paragraph + 1), 1))
        ELSE MoveAfter(b3, Len(b3),
                       BodyIndexFrom(b3, "p", PyIndex(n3 - 1, after_paragraph), 1))

\* the whole handler (lines 1316-1412).  With after_paragraph = 0 and no
\* title the name paragraph is unbound at line 1376 (UnboundLocalError);
\* a negative after_paragraph indexes from the end or raises IndexError.
insert_table_of_contents(files, file_path, title, levels, after_paragraph) ==
    LET file == files[file_path]
    IN  IF file.kind = "nofile" THEN <<Error("file not found"), files>>
        ELSE IF levels < 1 \/ levels > 9 THEN <<Error("levels"), files>>
        ELSE IF file.kind = "badfile" THEN <<Error("exception"), files>>
        ELSE IF after_paragraph >= Len(Paragraphs(file))
        THEN <<Error("paragraph index"), files>>
        ELSE IF after_paragraph # 0 /\ PyIndex(Len(Paragraphs(file)), after_paragraph) = 0
        THEN <<Error("exception"), files>>
        ELSE IF after_paragraph = 0 /\ title = <<>>
        THEN <<Error("exception"), files>>
        ELSE <<Json("success", TRUE,
                    [title |-> title, levels |-> levels,
                     after_paragraph |-> after_paragraph]),
               [files EXCEPT ![file_path] =
                   [file EXCEPT !.body = TocPlaced(@, title, levels, after_paragraph)]]>>

\* the section whose definition a section's header or footer is: its own,
\* or the nearest earlier one's, or the first section's
RECURSIVE Holder(_, _, _)
Holder(sections, k, field) ==
    IF ~sections[k][field].linked \/ k = 1 THEN k
    ELSE Holder(sections, k - 1, field)

\* paragraph.text = text, alignment CENTER, every run 12 pt (lines 1451-1454,
\* 1462-1465)
HeaderFooterText(para, text) ==
    [para EXCEPT !.runs = <<[MkRun(text, PlainStyle) EXCEPT !.style.size = Some(12)]>>,
                 !.alignment = Some("CENTER")]

\* a run with the PAGE field added, alignment CENTER (lines 1469-1482)
PageNumber(para) ==
    [para EXCEPT !.runs = Append(@, [MkRun(<<>>, PlainStyle) EXCEPT !.field = <<"PAGE">>]),
                 !.alignment = Some("CENTER")]

\* the paragraphs of a header or footer with the first one (made when there
\* is none) set to text when has_text, and given a page number when numbered
EditFirstPara(paras, has_text, text, numbered) ==
    LET first == IF paras = <<>> THEN NewPara(<<>>) ELSE paras[1]
        texted == IF has_text THEN HeaderFooterText(first, text) ELSE first
    IN  <<IF numbered THEN PageNumber(texted) ELSE texted>>
        \o (IF paras = <<>> THEN <<>> ELSE Tail(paras))

\* the sections after the loop body (lines 1446-1482) has run on section k
\* with has_header: header_text is truthy, and likewise has_footer
SectionEdited(sections, k, has_header, header_text, has_footer, footer_text, page_numbers) ==
    LET h == Holder(sections, k, "header")
        s1 == IF has_header
              THEN [sections EXCEPT ![h].header =
                      Defined(EditFirstPara(HeaderFooterParas(sections, k, "header"),
                                            TRUE, header_text, FALSE))]
              ELSE sections
        f == Holder(s1, k, "footer")
    IN  IF has_footer \/ page_numbers
        THEN [s1 EXCEPT ![f].footer =
                Defined(EditFirstPara(HeaderFooterParas(s1, k, "footer"),
                                      has_footer, footer_text, page_numbers))]
        ELSE s1

\* the sections after the loop has run on sections k .. the last
RECURSIVE SectionsEdited(_, _, _, _, _, _, _)
SectionsEdited(sections, k, has_header, header_text, has_footer, footer_text, page_numbers) ==
    IF k > Len(sections) THEN sections
    ELSE SectionsEdited(
            SectionEdited(sections, k, has_header, header_text, has_footer,
                          footer_text, page_numbers),
            k + 1, has_header, header_text, has_footer, footer_text, page_numbers)

\* the whole handler (lines 1416-1504); header_text and footer_text are None
\* or Some(text)
add_header_footer(files, file_path, header_text, footer_text, page_numbers) ==
    LET file == files[file_path]
        has_header == header_text \notin {None, Some(<<>>)}
        has_footer == footer_text \notin {None, Some(<<>>)}
    IN  IF file.kind = "nofile" THEN <<Error("file not found"), files>>
        ELSE IF header_text = None /\ footer_text = None /\ ~page_numbers
        THEN <<Error("nothing to add"), files>>
        ELSE IF file.kind = "badfile" THEN <<Error("exception"), files>>
        ELSE <<Json("success", TRUE,
                    [header_text |-> header_text, footer_text |-> footer_text,
                     page_numbers |-> page_numbers]),
               [files EXCEPT ![file_path] =
                   [file EXCEPT !.sections =
                       SectionsEdited(@, 1, has_header,
                                      IF has_header THEN header_text[1] ELSE <<>>,
                                      has_footer,
                                      IF has_footer THEN footer_text[1] ELSE <<>>,
                                      page_numbers)]]>>

S_portrait == <<"p", "o", "r", "t", "r", "a", "i", "t">>
S_landscape == <<"l", "a", "n", "d", "s", "c", "a", "p", "e">>

\* orientation_map (lines 1542-1545); "" for a name it does not hold
OrientationMap(name) ==
    CASE name = S_portrait -> "portrait"
      [] name = S_landscape -> "landscape"
      [] OTHER -> ""

\* a float that Python takes as true: not zero (a NaN is not zero)
Truthy(x) == x # None /\ (x[1].nan \/ x[1].v # 0)

\* a size or margin after "if given: section.x = Cm(value)"
Assigned(given, value, old) == IF given THEN Some(value[1].v) ELSE old

\* the whole handler (lines 1508-1606): orientation is None or Some(name),
\* the sizes and margins are None or Some(float).  Cm() of a NaN raises
\* ValueError; the response, which repeats the arguments, is serialised at
\* line 1590, after the save of line 1588.
set_page_layout(files, file_path, section_index, orientation, page_width, page_height, left_margin, right_margin, top_margin, bottom_margin) ==
    LET file == files[file_path]
        has_orientation == orientation \notin {None, Some(<<>>)}
        sized == Truthy(page_width) /\ Truthy(page_height)
        margins == {x \in {left_margin, right_margin, top_margin, bottom_margin} : x # None}
        converted == margins \cup (IF sized THEN {page_width, page_height} ELSE {})
        echoed == {x[1] : x \in {y \in {page_width, page_height, left_margin,
                                        right_margin, top_margin, bottom_margin} :
                                 y # None}}
    IN  IF file.kind = "nofile" THEN <<Error("file not found"), files>>
        ELSE IF has_orientation /\ OrientationMap(Lower(orientation[1])) = ""
        THEN <<Error("orientation"), files>>
        ELSE IF file.kind = "badfile" THEN <<Error("exception"), files>>
        ELSE IF section_index < 0 \/ section_index >= Len(file.sections)
        THEN <<Error("section index"), files>>
        ELSE IF \E x \in converted : x[1].nan THEN <<Error("exception"), files>>
        ELSE
          LET section == file.sections[section_index + 1]
              laid ==
                [section EXCEPT
                    !.orientation = IF has_orientation
                                    THEN OrientationMap(Lower(orientation[1])) ELSE @,
                    !.page_width = Assigned(sized, page_width, @),
                    !.page_height = Assigned(sized, page_height, @),
                    !.left_margin = Assigned(left_margin # None, left_margin, @),
                    !.right_margin = Assigned(right_margin # None, right_margin, @),
                    !.top_margin = Assigned(top_margin # None, top_margin, @),
                    !.bottom_margin = Assigned(bottom_margin # None, bottom_margin, @)]
              saved == [files EXCEPT ![file_path] =
                           [file EXCEPT !.sections[section_index + 1] = laid]]
              response == response_handler(
                              Json("success", TRUE,
                                   [section_index |-> section_index,
                                    orientation |-> orientation,
                                    page_width |-> page_width,
                                    page_height |-> page_height]),
                              echoed)
          IN  IF response.kind = "raise"
              THEN <<Error("exception"), saved>>
              ELSE <<response, saved>>


(***************************************************************************)
(* assess_document_quality, extract_document_info                           *)
(***************************************************************************)
\* text of lines 2260-2262: every paragraph's text with a blank after it
QualityText(doc) ==
    Concat([i \in DOMAIN Paragraphs(doc) |-> ParaText(Paragraphs(doc)[i]) \o <<" ">>])

\* average_sentence_length (lines 2265-2266): the pieces of the split that
\* are not empty, their lengths summed over their number
AverageSentenceLength(text, is_chinese) ==
    LET pieces == SelectSeq(
                    SplitRanges(text, IF is_chinese THEN ChineseEnders ELSE EnglishEnders,
                                1, 1),
                    LAMBDA r : r[2] >= r[1])
    IN  Quotient(SumSeq([i \in DOMAIN pieces |-> pieces[i][2] - pieces[i][1] + 1]),
                 Len(pieces))

\* the font sizes that lines 2275-2280 collect
FontSizes(doc) ==
    LET runs == ParasRuns(Paragraphs(doc))
    IN  SelectSeq([i \in DOMAIN runs |-> runs[i].style.size], LAMBDA z : z # None)

\* The whole handler (lines 2248-2294).  Only Document(file_path) is inside
\* a try; the object given back has no "status".
assess_document_quality(files, file_path, is_chinese, cuts) ==
    LET file == files[file_path]
    IN  IF ~IsDoc(file) THEN Bare(TRUE, None)
        ELSE LET average == AverageSentenceLength(QualityText(file), is_chinese)
                 score == calculate_readability(QualityText(file), is_chinese, cuts)
             IN  IF average.raises \/ score.raises THEN Raise("ZeroDivisionError")
                 ELSE Bare(FALSE,
                           [average_sentence_length |-> average,
                            readability_score |-> score,
                            paragraph_alignment |->
                                [i \in DOMAIN Paragraphs(file) |->
                                    Paragraphs(file)[i].alignment],
                            font_size_consistency |-> FontSizes(file)])

\* the level of a heading style (line 2081); 0 for a style that is none
HeadingLevel(style) ==
    IF \E level \in 1..9 : HeadingStyle(level) = style
    THEN CHOOSE level \in 1..9 : HeadingStyle(level) = style
    ELSE 0

\* row_data of line 2063 for every row of a table
TableData(table) ==
    [r \in DOMAIN table.rows |->
        [c \in DOMAIN RowCells(table.rows[r]) |->
            Strip(CellText(RowCells(table.rows[r])[c]))]]

\* count_words (lines 2003-2008): the characters of a Chinese text, the
\* pieces of text.split() of another
count_words(text, is_chinese) ==
    IF is_chinese THEN Len(text)
    ELSE Len(SelectSeq(SplitRanges(text, Spaces, 1, 1), LAMBDA r : r[2] >= r[1]))

\* the words of a sequence, each once, in the order of their first places
RECURSIVE FirstSeen(_)
FirstSeen(words) ==
    IF words = <<>> THEN <<>>
    ELSE LET front == FirstSeen(SubSeq(words, 1, Len(words) - 1))
             last == words[Len(words)]
         IN  IF \E i \in DOMAIN front : front[i] = last THEN front
             ELSE Append(front, last)

\* Counter(words)[word]
Frequency(words, word) == Cardinality({ i \in DOMAIN words : words[i] = word })

\* extract_keywords (lines 2011-2028) for a text that is not Chinese:
\* Counter(re.findall(r'\b\w+\b', text.lower())).most_common(top_n), most
\* frequent first and among equals the one seen first
extract_keywords(text, top_n) ==
    LET words == WordsFrom(Lower(text), 1)
        seen == FirstSeen(words)
        Ahead(i, j) ==
            \/ Frequency(words, seen[i]) > Frequency(words, seen[j])
            \/ Frequency(words, seen[i]) = Frequency(words, seen[j]) /\ i < j
        ranked == [k \in DOMAIN seen |->
                     CHOOSE j \in DOMAIN seen :
                        Cardinality({ i \in DOMAIN seen : Ahead(i, j) }) = k - 1]
    IN  [k \in 1..Min(top_n, Len(seen)) |->
            [word |-> seen[ranked[k]], count |-> Frequency(words, seen[ranked[k]])]]

\* what lines 2053-2058 add to text: every paragraph text that is not blank,
\* stripped, with a blank after it
ParagraphsText(doc) ==
    LET texts == SelectSeq([i \in DOMAIN Paragraphs(doc) |->
                               Strip(ParaText(Paragraphs(doc)[i]))],
                           LAMBDA t : t # <<>>)
    IN  Concat([i \in DOMAIN texts |-> texts[i] \o <<" ">>])

\* what lines 2060-2066 add to text: " ".join(row_data) + " " for every row
TablesText(doc) ==
    LET RowText(row_data) ==
            IF row_data = <<>> THEN <<" ">>
            ELSE Concat([c \in DOMAIN row_data |-> row_data[c] \o <<" ">>])
    IN  Concat([t \in DOMAIN Tables(doc) |->
          Concat([r \in DOMAIN TableData(Tables(doc)[t]) |->
                    RowText(TableData(Tables(doc)[t])[r])])])

\* what lines 2078-2086 add to text: the text of every paragraph in a
\* Heading style, not stripped, with a blank after it
HeadingsText(doc) ==
    LET headed == SelectSeq(Paragraphs(doc), LAMBDA para : HeadingLevel(para.style) # 0)
    IN  Concat([i \in DOMAIN headed |-> ParaText(headed[i]) \o <<" ">>])

\* The whole handler (lines 2032-2104) for the default extract_content, a
\* document that is not Chinese and the default top_n; images left out.
\* Document(file_path) at line 2040 is inside no try; the object given back
\* has no "status".
extract_document_info(files, file_path) ==
    LET file == files[file_path]
    IN  IF ~IsDoc(file) THEN Raise("PackageNotFoundError")
        ELSE LET texts == [i \in DOMAIN Paragraphs(file) |->
                              Strip(ParaText(Paragraphs(file)[i]))]
                 headed == SelectSeq(Paragraphs(file),
                                     LAMBDA para : HeadingLevel(para.style) # 0)
                 text == ParagraphsText(file) \o TablesText(file) \o HeadingsText(file)
             IN  Bare(FALSE,
                      [paragraphs |-> SelectSeq(texts, LAMBDA t : t # <<>>),
                       tables |-> [t \in DOMAIN Tables(file) |->
                                      TableData(Tables(file)[t])],
                       headings |-> [i \in DOMAIN headed |->
                                       [text |-> Strip(ParaText(headed[i])),
                                        level |-> HeadingLevel(headed[i].style)]],
                       text |-> Strip(text),
                       keywords |-> IF text = <<>> THEN <<>>
                                    ELSE extract_keywords(text, 10),
                       word_count |-> count_words(text, FALSE)])


(***************************************************************************)
(* Specification Spec: the tools called one after another, up to MaxCalls   *)
(* calls, on a disk that holds a document at a.docx and no document at      *)
(* b.docx.                                                                  *)
(***************************************************************************)
S_Red == <<"R", "e", "d">>
S_mauve == <<"m", "a", "u", "v", "e">>
S_hash_f00 == <<"#", "f", "0", "0">>
S_Arial == <<"A", "r", "i", "a", "l">>

\* two paragraphs, the second one without text, a table of one merged cell,
\* two sections that share the header and the footer
D_Report ==
    MkDoc(<<P_TheCatSat, P_NoRuns, OneCellTable(S_cat, 2)>>,
          <<DefaultSection, DefaultSection>>)

\* one paragraph of two formatted runs, a header of its own
D_Styled == MkDoc(<<P_HelloWorld>>, <<SectionWithHeader(<<P_TheCatSat>>)>>)

\* one paragraph, its text in a hyperlink
D_Linked == MkDoc(<<P_Linked>>, <<DefaultSection>>)

ToolDocs == {NewDocument, D_Report, D_Styled, D_Linked}

Floats == {None, Some(Float(2)), Some(NaN)}

Init ==
    /\ disk \in { Disk(d, NoFile) : d \in ToolDocs } \cup {Disk(D_Report, BadFile)}
    /\ resp = NoResp
    /\ call = NoCall

\* the values an argument takes in a call on file_path: all of them on
\* a.docx, the one given on b.docx, which holds no document
Args(file_path, values, only) == IF file_path = "a.docx" THEN values ELSE {only}

\* one call: the response goes to the caller, the disk is what the call left
Returns(op, args, result) ==
    /\ resp' = result[1]
    /\ disk' = result[2]
    /\ call' = Call(op, args)

AddText ==
    /\ call.n < MaxCalls
    /\ \E file_path \in Paths :
       \E is_heading \in Args(file_path, BOOLEAN, FALSE),
          heading_level \in Args(file_path, {0, 2}, 2),
          alignment \in Args(file_path, {"center", "middle"}, "center"),
          paragraph_index \in Args(file_path, {-1, -2, 0, 3}, -1),
          direction \in Args(file_path, {"front", "behind", "up"}, "behind") :
         /\ heading_level = 0 => is_heading /\ paragraph_index = -1
         /\ paragraph_index = -2 => ~is_heading /\ direction = "behind"
         /\ alignment = "middle" => paragraph_index = -1 /\ direction = "behind"
         /\ direction = "up" => paragraph_index = -1 /\ ~is_heading
         /\ Returns("add_text_to_document",
                    [file_path |-> file_path, text |-> S_cat,
                     is_heading |-> is_heading, heading_level |-> heading_level,
                     alignment |-> alignment, paragraph_index |-> paragraph_index,
                     direction |-> direction],
                    add_text_to_document(disk, file_path, S_cat, is_heading,
                                         heading_level, alignment, paragraph_index,
                                         direction))

FormatText ==
    /\ call.n < MaxCalls
    /\ \E file_path \in Paths :
       \E paragraph_index \in Args(file_path, {-2, 0, 1, 3}, 0),
          font_color \in Args(file_path, {None, Some(S_hash_f00), Some(S_mauve)}, None),
          highlight_color \in {None, Some(S_Red), Some(S_mauve)},
          bold \in Args(file_path, {Some(TRUE), Some(FALSE)}, Some(TRUE)),
          italic \in Args(file_path, {None, Some(FALSE)}, None) :
         /\ paragraph_index = 3 => font_color = None
         /\ paragraph_index = -2 => font_color = None /\ highlight_color = None
         /\ file_path = "b.docx" => highlight_color # Some(S_Red)
         /\ bold = Some(FALSE) => font_color = None /\ highlight_color # Some(S_mauve)
         /\ italic = Some(FALSE) <=> bold = Some(FALSE)
         /\ Returns("format_text_in_document",
                    [file_path |-> file_path, paragraph_index |-> paragraph_index,
                     font_name |-> Some(S_Arial), font_size |-> Some(12),
                     bold |-> bold, italic |-> italic, underline |-> italic,
                     font_color |-> font_color,
                     highlight_color |-> highlight_color],
                    format_text_in_document(disk, file_path, paragraph_index,
                                            Some(S_Arial), Some(12), bold, italic,
                                            italic, font_color, highlight_color))

SetSpacing ==
    /\ call.n < MaxCalls
    /\ \E file_path \in Paths :
       \E paragraph_index \in Args(file_path, {-2, 0, 3}, 0),
          before_spacing \in Args(file_path, Floats, None),
          line_spacing \in Args(file_path, {None, Some(Float(2))}, None),
          line_spacing_rule \in {"multiple", "exact", "double"} :
         /\ line_spacing_rule = "double" => before_spacing = None /\ line_spacing = None
         /\ paragraph_index = 3 => before_spacing = None /\ line_spacing = None
         /\ paragraph_index = -2 => line_spacing_rule = "multiple" /\ before_spacing = None
         /\ Returns("set_paragraph_spacing",
                    [file_path |-> file_path, paragraph_index |-> paragraph_index,
                     before_spacing |-> before_spacing, line_spacing |-> line_spacing,
                     line_spacing_rule |-> line_spacing_rule],
                    set_paragraph_spacing(disk, file_path, paragraph_index,
                                          before_spacing, None, line_spacing,
                                          line_spacing_rule))

InsertImage ==
    /\ call.n < MaxCalls
    /\ \E file_path \in Paths :
       \E image \in ImageFiles, width \in Args(file_path, Floats, None),
          after_paragraph \in Args(file_path, {-1, -2, 0, 3}, -1) :
         /\ image # "image" => width = None /\ after_paragraph = -1
         /\ Returns("insert_image",
                    [file_path |-> file_path, image |-> image, width |-> width,
                     after_paragraph |-> after_paragraph],
                    insert_image(disk, file_path, image, width, None, after_paragraph))

InsertTable ==
    /\ call.n < MaxCalls
    /\ \E file_path \in Paths :
       \E rows \in {0, 2}, after_paragraph \in Args(file_path, {-1, -2, 0, 3}, -1),
          data \in Args(file_path, {<<>>, << <<S_cat, S_dog>> >>}, <<>>),
          style \in Args(file_path, {"Table Grid", "No Such Style"}, "Table Grid") :
         /\ (rows = 0 \/ style # "Table Grid") => data = <<>> /\ after_paragraph = -1
         /\ after_paragraph \in {-2, 3} => data = <<>>
         /\ Returns("insert_table",
                    [file_path |-> file_path, rows |-> rows, cols |-> 1, data |-> data,
                     after_paragraph |-> after_paragraph, style |-> style],
                    insert_table(disk, file_path, rows, 1, data, after_paragraph, style))

EditTableCell ==
    /\ call.n < MaxCalls
    /\ \E file_path \in Paths :
       \E table_index \in Args(file_path, {0, 1}, 0), row \in Args(file_path, {0, 1}, 0),
          col \in Args(file_path, {0, 1, 2}, 0) :
         /\ table_index = 1 => row = 0 /\ col = 0
         /\ row = 1 => col = 0
         /\ Returns("edit_table_cell",
                    [file_path |-> file_path, table_index |-> table_index,
                     row |-> row, col |-> col, text |-> S_dog],
                    edit_table_cell(disk, file_path, table_index, row, col, S_dog))

EditParagraph ==
    /\ call.n < MaxCalls
    /\ \E file_path \in Paths :
       \E paragraph_index \in Args(file_path, {-2, 0, 1, 3}, 0),
          save \in Args(file_path, BOOLEAN, TRUE) :
         /\ paragraph_index \in {-2, 3} => save
         /\ Returns("edit_paragraph_in_document",
                    [file_path |-> file_path, paragraph_index |-> paragraph_index,
                     new_text |-> S_dog, save |-> save],
                    edit_paragraph_in_document(disk, file_path, paragraph_index, S_dog,
                                               save))

FindAndReplaceText ==
    /\ call.n < MaxCalls
    /\ \E file_path \in Paths :
       \E find_text \in Args(file_path, {<<>>, S_cat, S_Cat}, S_cat),
          match_case \in Args(file_path, BOOLEAN, TRUE),
          save \in Args(file_path, BOOLEAN, TRUE) :
         /\ find_text = <<>> => save
         /\ Returns("find_and_replace_text",
                    [file_path |-> file_path, find_text |-> find_text,
                     replace_text |-> S_dog, match_case |-> match_case,
                     match_whole_word |-> FALSE, save |-> save],
                    find_and_replace_text(disk, file_path, find_text, S_dog, match_case,
                                          FALSE, save))

DeleteParagraph ==
    /\ call.n < MaxCalls
    /\ \E file_path \in Paths :
       \E paragraph_index \in Args(file_path, {-2, 0, 1, 3}, 0),
          save \in Args(file_path, BOOLEAN, TRUE) :
         /\ paragraph_index \in {-2, 3} => save
         /\ Returns("delete_paragraph",
                    [file_path |-> file_path, paragraph_index |-> paragraph_index,
                     save |-> save],
                    delete_paragraph(disk, file_path, paragraph_index, save))

InsertToc ==
    /\ call.n < MaxCalls
    /\ \E file_path \in Paths :
       \E title \in Args(file_path, {<<>>, S_cat}, S_cat), levels \in {0, 3},
          after_paragraph \in Args(file_path, {-1, -3, 0, 1, 3}, 0) :
         /\ levels = 0 => title = S_cat /\ after_paragraph = 0
         /\ Returns("insert_table_of_contents",
                    [file_path |-> file_path, title |-> title, levels |-> levels,
                     after_paragraph |-> after_paragraph],
                    insert_table_of_contents(disk, file_path, title, levels,
                                             after_paragraph))

AddHeaderFooter ==
    /\ call.n < MaxCalls
    /\ \E file_path \in Paths :
       \E header_text \in {None, Some(S_cat)},
          footer_text \in Args(file_path, {None, Some(<<>>), Some(S_dog)}, None),
          page_numbers \in Args(file_path, BOOLEAN, FALSE) :
         Returns("add_header_footer",
                 [file_path |-> file_path, header_text |-> header_text,
                  footer_text |-> footer_text, page_numbers |-> page_numbers],
                 add_header_footer(disk, file_path, header_text, footer_text,
                                   page_numbers))

SetPageLayout ==
    /\ call.n < MaxCalls
    /\ \E file_path \in Paths :
       \E section_index \in Args(file_path, {0, 2}, 0),
          orientation \in {None, Some(S_landscape), Some(S_mauve)},
          page_width \in Args(file_path, Floats, None),
          page_height \in Args(file_path, {None, Some(Float(3))}, None),
          left_margin \in Args(file_path, {None, Some(NaN)}, None) :
         /\ (section_index = 2 \/ orientation = Some(S_mauve))
               => page_width = None /\ page_height = None /\ left_margin = None
         /\ file_path = "b.docx" => orientation # Some(S_landscape)
         /\ Returns("set_page_layout",
                    [file_path |-> file_path, section_index |-> section_index,
                     orientation |-> orientation, page_width |-> page_width,
                     page_height |-> page_height, left_margin |-> left_margin],
                    set_page_layout(disk, file_path, section_index, orientation,
                                    page_width, page_height, left_margin, None, None,
                                    None))

\* a tool that writes nothing: the disk stays
Answers(op, args, response) ==
    /\ resp' = response
    /\ call' = Call(op, args)
    /\ UNCHANGED disk

ComplexQuery ==
    /\ call.n < MaxCalls
    /\ \E file_path \in Paths :
       \E query \in Args(file_path,
                        {S_keyword \o <<":">> \o S_cat, S_foo \o <<":">> \o S_cat,
                         S_tables, S_dog},
                        S_tables) :
         Answers("complex_query", [file_path |-> file_path, query |-> query],
                 complex_query(disk[file_path], query))

\* "o w", which stands across the two runs of P_HelloWorld
S_o_w == <<"o", " ", "w">>

\* "cat=d:g": a bare directive whose replacement holds a ":"
S_cat_is_d_colon_g == S_cat \o <<"=", "d", ":", "g">>

ToolReplaceDirectives ==
    { S_dog, S_contains \o <<":">> \o S_cat \o <<"=">> \o S_dog,
      S_keyword \o <<":">> \o S_dog \o <<"=">> \o S_cat,
      S_keyword \o <<":">> \o S_dog,
      S_foo \o <<":">> \o S_cat \o <<"=">> \o S_dog,
      S_cat_is_d_colon_g, S_dog \o <<"=">> \o S_cat,
      S_contains \o <<":">> \o S_o_w \o <<"=">> \o S_dog }

ComplexReplaceTool ==
    /\ call.n < MaxCalls
    /\ \E file_path \in Paths :
       \E replace \in Args(file_path, ToolReplaceDirectives, S_dog) :
         Returns("complex_replace", [file_path |-> file_path, replace |-> replace],
                 complex_replace(disk, file_path, replace, None))

CompareDocuments ==
    /\ call.n < MaxCalls
    /\ \E doc1_path \in Paths, doc2_path \in Paths :
         Answers("compare_documents", [doc1_path |-> doc1_path, doc2_path |-> doc2_path],
                 compare_documents(disk, doc1_path, doc2_path))

AssessDocumentQuality ==
    /\ call.n < MaxCalls
    /\ \E file_path \in Paths, is_chinese \in BOOLEAN :
         Answers("assess_document_quality", [file_path |-> file_path, is_chinese |-> is_chinese],
                 assess_document_quality(disk, file_path, is_chinese, {}))

ExtractDocumentInfo ==
    /\ call.n < MaxCalls
    /\ \E file_path \in Paths :
         Answers("extract_document_info", [file_path |-> file_path],
                 extract_document_info(disk, file_path))

Next ==
    \/ AddText
    \/ FormatText
    \/ SetSpacing
    \/ InsertImage
    \/ InsertTable
    \/ EditTableCell
    \/ EditParagraph
    \/ FindAndReplaceText
    \/ DeleteParagraph
    \/ InsertToc
    \/ AddHeaderFooter
    \/ SetPageLayout
    \/ ComplexQuery
    \/ ComplexReplaceTool
    \/ CompareDocuments
    \/ AssessDocumentQuality
    \/ ExtractDocumentInfo

Spec == Init /\ [][Next]_vars


(***************************************************************************)
(* Properties of the tool interface.                                        *)
(***************************************************************************)
\* the operations that write to the document they are given
MutatingOperations ==
    {"add_text_to_document", "format_text_in_document", "set_paragraph_spacing",
     "insert_image", "insert_table", "edit_table_cell", "edit_paragraph_in_document",
     "find_and_replace_text", "delete_paragraph", "insert_table_of_contents",
     "add_header_footer", "set_page_layout"}

\* a call has been made and resp is what it gave
Called == call.n > 0

\* C1: every call gives back a JSON object whose "status" is "success" or
\* "error", and an error object carries a "message".
C1_StatusIsSuccessOrError ==
    Called =>
        /\ resp.kind = "json"
        /\ resp.status \in {"success", "error"}
        /\ resp.status = "error" => resp.hasMessage

\* C1, the failing case: format_text_in_document on a paragraph without text
\* answers with the status "warning".
C1_BlankParagraphWarning ==
    /\ call.op = "format_text_in_document"
    /\ resp.kind = "json"
    /\ resp.status = "warning"

\* C2: no call ends in an exception that reaches the caller.
C2_NoRawException == Called => resp.kind # "raise"

\* C2, the failing case: complex_replace with a directive that holds neither
\* ":" nor "=" ends in the ValueError of the unpacking at line 1915.
C2_BareDirectiveRaises ==
    /\ call.op = "complex_replace"
    /\ call.args.replace = S_dog
    /\ resp.kind = "raise"

\* C3: after a call of a mutating operation whose status is not "success"
\* the disk is what it was before the call.
C3_FailureLeavesFileUnchanged ==
    (call.op \in MutatingOperations /\ resp.status # "success") => disk = call.before

\* C3, the failing case: set_page_layout has saved the document when the
\* serialisation of its response fails, and answers with an error.
C3_PageLayoutSavedThenFailed ==
    /\ call.op = "set_page_layout"
    /\ resp.status = "error"
    /\ disk # call.before


\* the names of the three modes of a directive
Modes == {S_regex, S_keyword, S_contains}

\* the directive of the last call of complex_query or complex_replace
Directive ==
    IF call.op = "complex_query" THEN call.args.query ELSE call.args.replace

\* the directive has a mode prefix, the text before its first ":", and the
\* prefix names none of the three modes
UnknownMode(directive) ==
    /\ ":" \in Range(directive)
    /\ SplitFirst(directive, ":")[1] \notin Modes

\* C11: complex_query and complex_replace answer a directive whose mode
\* prefix is none of regex, keyword, contains with an error response.
C11_UnknownModeRejected ==
    (call.op \in {"complex_query", "complex_replace"} /\ UnknownMode(Directive))
        => (resp.kind = "json" /\ resp.status = "error")

\* C11, the failing case: complex_query answers "foo:cat" on a document
\* with a success response.
C11_UnknownQueryModeSucceeds ==
    /\ call.op = "complex_query"
    /\ call.args.query = S_foo \o <<":">> \o S_cat
    /\ resp.status = "success"

\* the first "=" of the directive stands before any ":" of it
BareDirective(directive) ==
    /\ "=" \in Range(directive)
    /\ \A i \in DOMAIN directive :
          directive[i] = ":" => FindFrom(directive, <<"=">>, 1) < i

\* what complex_replace gives for the last call's document and path when
\* the directive is the given one
ReplaceOutcome(directive) ==
    complex_replace(call.before, call.args.file_path, directive, None)[1]

\* C12: a bare directive pattern=replacement is processed in contains mode
\* also when a ":" comes after the "=": the call ends as the call with
\* "contains:" put in front of the directive ends.
C12_BareDirectiveIsContains ==
    (call.op = "complex_replace" /\ BareDirective(call.args.replace))
        => /\ resp.kind = ReplaceOutcome(S_contains \o <<":">> \o call.args.replace).kind
           /\ resp.status = ReplaceOutcome(S_contains \o <<":">> \o call.args.replace).status

\* C12, the failing case: "cat=d:g" on a document is refused as a directive
\* of invalid format although "contains:cat=d:g" is processed.
C12_ColonAfterEqualsRefused ==
    /\ call.op = "complex_replace"
    /\ call.args.replace = S_cat_is_d_colon_g
    /\ IsDoc(call.before[call.args.file_path])
    /\ resp.status = "error"
    /\ ReplaceOutcome(S_contains \o <<":">> \o S_cat_is_d_colon_g).status # "error"


\* the document at the path of the last call, before the call and now
DocBefore == call.before[call.args.file_path]
DocNow == disk[call.args.file_path]

\* the texts of the paragraphs of the body and of the cells of its tables
VisitedTexts(doc) ==
    [i \in DOMAIN VisitedParas(doc.body) |-> ParaText(VisitedParas(doc.body)[i])]

\* the number of runs in the body's paragraphs that hold a field
TocCount(doc) ==
    Len(SelectSeq(ParasRuns(Paragraphs(doc)), LAMBDA r : r.field # <<>>))

\* the operations that take a save flag
SaveFlagged ==
    {"edit_paragraph_in_document", "find_and_replace_text", "delete_paragraph"}

\* the document on disk shows what the last call, a successful call of a
\* mutating operation, reports to have done
Written ==
    CASE call.op = "add_text_to_document" ->
            Len(Paragraphs(DocNow)) = Len(Paragraphs(DocBefore)) + 1
      [] call.op = "format_text_in_document" ->
            \A r \in Range(Runs(Paragraphs(DocNow)[call.args.paragraph_index + 1])) :
                r.style.size = call.args.font_size /\ r.style.bold = call.args.bold
      [] call.op = "set_paragraph_spacing" ->
            call.args.before_spacing # None =>
                Paragraphs(DocNow)[call.args.paragraph_index + 1].spacing.before
                    = Some(call.args.before_spacing[1].v)
      [] call.op = "insert_image" -> PicCount(DocNow) = PicCount(DocBefore) + 1
      [] call.op = "insert_table" -> Len(Tables(DocNow)) = Len(Tables(DocBefore)) + 1
      [] call.op = "edit_table_cell" ->
            CellText(RowCells(Tables(DocNow)[call.args.table_index + 1]
                                .rows[call.args.row + 1])[call.args.col + 1])
                = call.args.text
      [] call.op = "edit_paragraph_in_document" ->
            RunsText(Paragraphs(DocNow)[call.args.paragraph_index + 1])
                = call.args.new_text
      [] call.op = "find_and_replace_text" ->
            resp.data.replace_count > 0 => VisitedTexts(DocNow) # VisitedTexts(DocBefore)
      [] call.op = "delete_paragraph" ->
            Len(Paragraphs(DocNow)) = Len(Paragraphs(DocBefore)) - 1
      [] call.op = "insert_table_of_contents" ->
            TocCount(DocNow) = TocCount(DocBefore) + 1
      [] call.op = "add_header_footer" ->
            call.args.header_text # None =>
                ParaText(HeaderFooterParas(DocNow.sections, 1, "header")[1])
                    = call.args.header_text[1]
      [] call.op = "set_page_layout" ->
            call.args.orientation # None =>
                DocNow.sections[call.args.section_index + 1].orientation
                    = OrientationMap(Lower(call.args.orientation[1]))
      [] OTHER -> TRUE

\* the last call is a call of a mutating operation that answered success
Succeeded == call.op \in MutatingOperations /\ resp.status = "success"

\* C13 as stated: after every successful call of a mutating operation the
\* file shows the mutation the call reports, whatever its parameters.
C13_SuccessIsWritten == Succeeded => Written

\* C13, amended: after a successful call of a mutating operation that was
\* not told save = False the file shows the mutation the call reports.
C13_SuccessIsWrittenWhenSaved ==
    (Succeeded /\ (call.op \in SaveFlagged => call.args.save)) => Written

\* C13, its case: a paragraph of a.docx has been edited with save = True,
\* and a second call has read the edited document.
C13_EditedAndSaved ==
    /\ call.n = 2
    /\ call.before["a.docx"] # NewDocument
    /\ \E i \in DOMAIN Paragraphs(call.before["a.docx"]) :
          Paragraphs(call.before["a.docx"])[i].runs
              = <<MkRun(<<>>, PlainStyle), MkRun(S_dog, PlainStyle)>>
    /\ call.op = "delete_paragraph"
    /\ call.args.file_path = "a.docx"
    /\ call.args.save
    /\ resp.status = "success"


\* C14: every call comes back to its caller.
C14_EveryCallTerminates == resp.kind # "hang"

\* C14, the failing case: find_and_replace_text with an empty find_text, an
\* empty replace_text and match_case = False on a document that has a
\* paragraph never leaves the loop of lines 1164-1180.
C14_EmptyFindTextLoops ==
    /\ call.op = "find_and_replace_text"
    /\ call.args.find_text = <<>>
    /\ call.args.replace_text = <<>>
    /\ ~call.args.match_case
    /\ IsDoc(call.before[call.args.file_path])
    /\ resp.kind = "hang"
    /\ disk = call.before


\* the number of whole-word occurrences of w in the texts, letter case
\* ignored
WholeWordCount(texts, w) ==
    SumSeq([i \in DOMAIN texts |-> Cardinality(WholeWordAt(texts[i], w))])

\* C15: find_and_replace_text with match_whole_word = True leaves a
\* paragraph in which find_text stands only inside longer words as it is,
\* and counts no more than the whole-word occurrences.
C15_WholeWordOnly ==
    (/\ Found
     /\ call.args.match_whole_word
     /\ call.args.save
     /\ call.args.find_text # <<>>
     /\ resp.status = "success")
        => /\ \A i \in DOMAIN VisitedTexts(Before) :
                WholeWordAt(VisitedTexts(Before)[i], call.args.find_text) = {}
                    => VisitedTexts(DocNow)[i] = VisitedTexts(Before)[i]
           /\ resp.data.replace_count
                 <= WholeWordCount(VisitedTexts(Before), call.args.find_text)

\* C15, the failing case: with match_whole_word = True "cat" is replaced
\* inside "category" and counted.
C15_CatReplacedInCategory ==
    /\ Found
    /\ call.args.match_whole_word
    /\ call.args.save
    /\ call.args.find_text = S_cat
    /\ call.args.replace_text = S_dog
    /\ Before.body = <<P_CatEgory>>
    /\ resp.status = "success"
    /\ resp.data.replace_count = 1
    /\ VisitedTexts(DocNow) = <<S_dog \o S_egory>>


\* the lengths of the texts of the first k runs of a paragraph, summed
RunsEnd(para, k) == SumSeq([j \in 1..k |-> Len(para.runs[j].text)])

\* the matches of the pattern in the paragraph's text (their first
\* positions) that lie in two or more runs
SpanningMatches(para, pattern) ==
    { i \in Range(MatchesFrom(pattern, ParaText(para), 1)) :
        \E k \in 1..(Len(para.runs) - 1) :
            i <= RunsEnd(para, k) /\ RunsEnd(para, k) < i + Len(pattern.lit) - 1 }

\* C16: complex_replace counts every match that spans two or more runs of
\* a body paragraph in replace_count.
C16_SpanningMatchCounted ==
    (/\ Replaced
     /\ IsDoc(Before)
     /\ WellFormed
     /\ \E i \in DOMAIN Paragraphs(Before) :
           SpanningMatches(Paragraphs(Before)[i], ReplacePattern(DirectiveOf)) # {})
        => /\ resp.status = "success"
           /\ resp.data.replace_count
                 >= SumSeq([i \in DOMAIN Paragraphs(Before) |->
                       Cardinality(SpanningMatches(Paragraphs(Before)[i],
                                                   ReplacePattern(DirectiveOf)))])

\* C16, the failing case: "contains:o w=dog" on "Hello " + "world" answers
\* success with replace_count 0 and saves the text as it was.
C16_SpanningMatchLeft ==
    /\ Replaced
    /\ call.args.replace = S_contains \o <<":">> \o S_o_w \o <<"=">> \o S_dog
    /\ Before = D_Styled
    /\ resp.status = "success"
    /\ resp.data.replace_count = 0
    /\ IsDoc(disk[Modified(call.args.file_path)])
    /\ VisitedTexts(disk[Modified(call.args.file_path)]) = <<S_Hello_ \o S_world>>


\* the runs of every paragraph container of the document, each container
\* once: the body's paragraphs, the cells of the tables and of the tables
\* nested in them, and the headers and footers that the sections define
ContainerRuns(doc) ==
    ParasRuns(BodyParas(doc))
    \o ParasRuns(HeaderFooterDefined(WithDefinitions(doc, HeaderFooterFields)))

\* C17: one call of complex_replace passes the runs of every paragraph
\* container to process_run exactly once.
C17_EachContainerOnce ==
    (Replaced /\ IsDoc(Before) /\ WellFormed)
        => Len(VisitedRuns(Before)) = Len(ContainerRuns(Before))

\* C17, the failing case: the one run of a merged cell that covers two grid
\* columns is passed to process_run twice in a call that answers success.
C17_MergedCellVisitedTwice ==
    /\ Replaced
    /\ Before = D_Report
    /\ WellFormed
    /\ resp.status = "success"
    /\ Len(SelectSeq(ContainerRuns(Before), LAMBDA r : r.text = S_cat)) = 1
    /\ Len(SelectSeq(VisitedRuns(Before), LAMBDA r : r.text = S_cat)) = 2


\* the operations that take a paragraph index, and the ones among them
\* whose index -1 stands for the end of the document
IndexedOperations ==
    {"add_text_to_document", "format_text_in_document", "set_paragraph_spacing",
     "insert_image", "insert_table", "edit_paragraph_in_document",
     "delete_paragraph", "insert_table_of_contents"}
EndSentinelOperations ==
    {"add_text_to_document", "insert_image", "insert_table",
     "insert_table_of_contents"}

\* the paragraph index the call was given
IndexGiven ==
    IF call.op \in {"insert_image", "insert_table", "insert_table_of_contents"}
    THEN call.args.after_paragraph
    ELSE call.args.paragraph_index

\* the call took a paragraph index that is out of range for the document it
\* found in the file
IndexOutOfRange ==
    /\ call.op \in IndexedOperations
    /\ IsDoc(DocBefore)
    /\ ~ValidIndex(DocBefore, IndexGiven)
    /\ ~(call.op \in EndSentinelOperations /\ IndexGiven = -1)

\* C19: an operation that takes a paragraph index answers with an error and
\* leaves the file as it was when the index is out of range: neither in
\* 0..n-1 nor the end sentinel -1 of the operations that have one.
C19_OutOfRangeRejected ==
    IndexOutOfRange => /\ resp.kind = "json"
                       /\ resp.status = "error"
                       /\ disk = call.before

\* C19, the failing case: insert_image with after_paragraph = -2 on a
\* document of two paragraphs answers success and the file holds one more
\* picture.
C19_MinusTwoAccepted ==
    /\ call.op = "insert_image"
    /\ call.args.after_paragraph = -2
    /\ IsDoc(DocBefore)
    /\ Len(Paragraphs(DocBefore)) = 2
    /\ resp.status = "success"
    /\ IsDoc(DocNow)
    /\ PicCount(DocNow) = PicCount(DocBefore) + 1


\* add_text_to_document was called on a document with arguments it accepts:
\* a direction, an alignment and a heading level it knows, and a paragraph
\* index that is -1 or in range
TextAdded ==
    /\ call.op = "add_text_to_document"
    /\ IsDoc(DocBefore)
    /\ call.args.direction \in {"front", "behind"}
    /\ AlignmentMap(call.args.alignment) # None
    /\ call.args.is_heading => call.args.heading_level \in 1..9
    /\ call.args.paragraph_index = -1
         \/ ValidIndex(DocBefore, call.args.paragraph_index)

\* the position (from 1) where the new paragraph is to stand
NewPosition ==
    IF call.args.paragraph_index = -1 THEN Len(Paragraphs(DocBefore)) + 1
    ELSE IF call.args.direction = "front" THEN call.args.paragraph_index + 1
    ELSE call.args.paragraph_index + 2

\* C20: add_text_to_document inserts exactly one new paragraph: in front of
\* paragraph i at position i, behind it at position i + 1, with index -1 as
\* the last paragraph; the paragraphs there were keep their texts and their
\* order, the former paragraph i directly following a paragraph put in
\* front of it.
C20_OneParagraphInPlace ==
    TextAdded =>
        /\ resp.kind = "json"
        /\ resp.status = "success"
        /\ IsDoc(DocNow)
        /\ Len(Paragraphs(DocNow)) = Len(Paragraphs(DocBefore)) + 1
        /\ ParaText(Paragraphs(DocNow)[NewPosition]) = call.args.text
        /\ RemoveAt(Paragraphs(DocNow), NewPosition) = Paragraphs(DocBefore)
        /\ (call.args.paragraph_index # -1 /\ call.args.direction = "front") =>
              Paragraphs(DocNow)[NewPosition + 1]
                  = Paragraphs(DocBefore)[call.args.paragraph_index + 1]
        /\ Tables(DocNow) = Tables(DocBefore)

\* "cat" put behind paragraph 0 of the report, whose two paragraphs differ:
\* it stands between them
C20_BehindFirstParagraph ==
    /\ TextAdded
    /\ DocBefore = D_Report
    /\ call.args.paragraph_index = 0
    /\ call.args.direction = "behind"
    /\ resp.status = "success"
    /\ Paragraphs(DocNow) = <<P_TheCatSat, Paragraphs(DocNow)[2], P_NoRuns>>
    /\ ParaText(Paragraphs(DocNow)[2]) = S_cat


\* insert_table_of_contents was called on a document with a title, a number
\* of levels it accepts and the index of one of the document's paragraphs
TocInserted ==
    /\ call.op = "insert_table_of_contents"
    /\ IsDoc(DocBefore)
    /\ call.args.title # <<>>
    /\ call.args.levels \in 1..9
    /\ ValidIndex(DocBefore, call.args.after_paragraph)

\* C21: insert_table_of_contents with a title and a valid after_paragraph = k
\* puts the title paragraph directly after paragraph k and the paragraph of
\* the TOC field directly after the title, the paragraphs there were keeping
\* their order.
C21_TocAfterParagraph ==
    TocInserted =>
        LET k == call.args.after_paragraph
        IN  /\ resp.kind = "json"
            /\ resp.status = "success"
            /\ IsDoc(DocNow)
            /\ Len(Paragraphs(DocNow)) = Len(Paragraphs(DocBefore)) + 2
            /\ ParaText(Paragraphs(DocNow)[k + 2]) = call.args.title
            /\ Paragraphs(DocNow)[k + 3] = TocPara(call.args.levels)
            /\ RemoveAt(RemoveAt(Paragraphs(DocNow), k + 3), k + 2)
                  = Paragraphs(DocBefore)

\* C21, the failing case: with after_paragraph = 0 on a document of three
\* paragraphs the call answers success, the third paragraph stands directly
\* after the first, the TOC field before its title and the second paragraph
\* last.
C21_SecondParagraphMovedLast ==
    /\ TocInserted
    /\ call.args.after_paragraph = 0
    /\ Len(Paragraphs(DocBefore)) = 3
    /\ resp.status = "success"
    /\ Paragraphs(DocNow) =
          <<Paragraphs(DocBefore)[1], Paragraphs(DocBefore)[3],
            TocPara(call.args.levels), TocHeading(call.args.title),
            Paragraphs(DocBefore)[2]>>


\* the positions, among the paragraphs of the body and the tables, of the
\* paragraphs that have a text in which the directive's pattern matches and
\* no run
MatchedWithoutRuns ==
    { i \in DOMAIN BodyParas(Before) :
        /\ Runs(BodyParas(Before)[i]) = <<>>
        /\ MatchesFrom(ReplacePattern(DirectiveOf), ParaText(BodyParas(Before)[i]), 1)
             # <<>> }

\* C27: complex_replace on a paragraph that has a text and no run replaces
\* and counts the matches in that text, as in any other paragraph.
C27_NoRunParagraphReplaced ==
    (Replaced /\ IsDoc(Before) /\ WellFormed /\ MatchedWithoutRuns # {}) =>
        /\ resp.status = "success"
        /\ resp.data.replace_count > 0
        /\ IsDoc(disk[OutPath])
        /\ \A i \in MatchedWithoutRuns :
              ParaText(BodyParas(disk[OutPath])[i])
                = Subn(ReplacePattern(DirectiveOf), DirectiveOf.replacement,
                       ParaText(BodyParas(Before)[i])).text

\* C27, the failing case: contains:cat=earth over the one paragraph whose
\* text "cat" stands in a hyperlink answers success with replace_count 0,
\* and the saved paragraph still reads "cat" and has no run.
C27_LinkedTextLeft ==
    /\ Replaced
    /\ call.args.replace = S_contains \o <<":">> \o S_cat \o <<"=">> \o S_earth
    /\ Before.body = <<P_Linked>>
    /\ MatchedWithoutRuns = {1}
    /\ resp.status = "success"
    /\ resp.data.replace_count = 0
    /\ IsDoc(disk[OutPath])
    /\ disk[OutPath].body = <<P_Linked>>


\* in every paragraph of the document (body, tables, headers and footers)
\* the texts of the runs, in order, make up the paragraph's text
RunsCarryText(doc) ==
    LET paras == BodyParas(doc) \o HeaderFooterDefined(doc)
    IN  \A i \in DOMAIN paras :
            RunsText(paras[i]) = ParaText(paras[i])

\* the same of every document among the files
AllCarryText(files) ==
    \A path \in DOMAIN files : IsDoc(files[path]) => RunsCarryText(files[path])

TextEditors ==
    {"edit_paragraph_in_document", "find_and_replace_text",
     "format_text_in_document", "complex_replace"}

C23_KeywordWholeWordsOnly ==
    (Replaced /\ IsDoc(Before) /\ WellFormed /\ DirectiveOf.type = S_keyword
       /\ MatchesNowhere) =>
        /\ resp.kind = "json"
        /\ resp.status = "success"
        /\ resp.data.replace_count = 0
        /\ IsDoc(disk[OutPath])
        /\ disk[OutPath].body = Before.body

\* C23, the failing case: over the runs "cat" and "egory" the keyword
\* pattern for cat matches the first run by itself, process_run goes on to
\* replace it and the call ends there.
C23_CatRunTakenForWord ==
    /\ Replaced
    /\ WellFormed
    /\ DirectiveOf.type = S_keyword
    /\ DirectiveOf.pattern = S_cat
    /\ Paragraphs(Before) = <<P_CatEgory>>
    /\ ParaText(P_CatEgory) = S_cat \o S_egory
    /\ MatchesNowhere
    /\ process_run(P_CatEgory.runs[1], ReplacePattern(DirectiveOf),
                   DirectiveOf.replacement) = "AttributeError"
    /\ resp.kind = "raise"


\* the text as the comparison reads it
Folded(text, match_case) == IF match_case THEN text ELSE Lower(text)

\* where the occurrences of w in text start, taken from the left without
\* overlap, from position i on; an empty w occurs once at every position
RECURSIVE Occurrences(_, _, _)
Occurrences(text, w, i) ==
    IF i + Len(w) - 1 > Len(text) THEN <<>>
    ELSE IF SubSeq(text, i, i + Len(w) - 1) = w
    THEN <<i>> \o Occurrences(text, w, i + Max(Len(w), 1))
    ELSE Occurrences(text, w, i + 1)

\* text from position i on with the stretches of length n that start at the
\* positions in starts replaced by replace_text
RECURSIVE WithOccurrencesReplaced(_, _, _, _, _)
WithOccurrencesReplaced(text, starts, n, replace_text, i) ==
    IF i \in starts
    THEN replace_text
         \o (IF n = 0 /\ i <= Len(text) THEN <<text[i]>> ELSE <<>>)
         \o WithOccurrencesReplaced(text, starts, n, replace_text, i + Max(n, 1))
    ELSE IF i > Len(text) THEN <<>>
    ELSE <<text[i]>> \o WithOccurrencesReplaced(text, starts, n, replace_text, i + 1)

\* the occurrences of the call's find_text in a paragraph's text
FoundIn(para) ==
    Occurrences(Folded(ParaText(para), call.args.match_case),
                Folded(call.args.find_text, call.args.match_case), 1)

\* C24: find_and_replace_text returns as replace_count the number of
\* occurrences of find_text, taken from the left without overlap, in the
\* paragraphs of the body and of the cells of its tables, and with save
\* every such paragraph's text is its former text with those occurrences
\* replaced by replace_text.
C24_CountAndTextExact ==
    (Found /\ IsDoc(Before) /\ ~call.args.match_whole_word) =>
        LET old == VisitedParas(Before.body)
        IN  /\ resp.kind = "json"
            /\ resp.status = "success"
            /\ resp.data.replace_count
                 = SumSeq([i \in DOMAIN old |-> Len(FoundIn(old[i]))])
            /\ call.args.save =>
                 /\ IsDoc(DocNow)
                 /\ Len(VisitedParas(DocNow.body)) = Len(old)
                 /\ \A i \in DOMAIN old :
                       ParaText(VisitedParas(DocNow.body)[i])
                         = WithOccurrencesReplaced(ParaText(old[i]),
                               Range(FoundIn(old[i])), Len(call.args.find_text),
                               call.args.replace_text, 1)

\* C24, the failing case: "cat" replaced by "category" in a document whose
\* table has one merged cell reading "cat".  The cell is visited once per
\* grid column: its one occurrence is counted twice and its text becomes
\* "categoryegory".
C24_MergedCellReplacedTwice ==
    /\ Found
    /\ call.args.find_text = S_cat
    /\ call.args.replace_text = S_cat \o S_egory
    /\ call.args.match_case /\ call.args.save /\ ~call.args.match_whole_word
    /\ Before.body = <<P_NoRuns, OneCellTable(S_cat, 2)>>
    /\ resp.status = "success"
    /\ resp.data.replace_count = 2
    /\ ParaText(VisitedParas(DocNow.body)[2]) = S_cat \o S_egory \o S_egory


(***************************************************************************)
(* Specification SpecRace: invocations of edit_paragraph_in_document and    *)
(* find_and_replace_text on the same file from independent server           *)
(* processes.  Each invocation reads the file (Document(file_path)),        *)
(* changes its own document in memory and calls doc.save(file_path).  The   *)
(* save writes the package in place: it opens the path for writing, which   *)
(* empties the file, writes the parts and closes.  Between its opening and  *)
(* its closing the file is not a document, and when another save opens or   *)
(* writes the same path in that time the bytes of the two are laid over     *)
(* one another: what the file holds after the closing is the document of    *)
(* the one that closes or nothing a reader can open.                        *)
(* Here call and resp are functions of the invocation.                      *)
(***************************************************************************)
MaxProcs == 2        \* invocations that run side by side
Procs == 1..MaxProcs

Idle ==
    [pc |-> "idle", op |-> "none", args |-> <<>>, doc |-> NoFile, answer |-> NoResp,
     torn |-> FALSE, order |-> 0]

\* what the two tools are asked to do
RaceCalls ==
    { [op |-> "edit_paragraph_in_document",
       args |-> [paragraph_index |-> i, new_text |-> t]] :
        i \in {0, 1}, t \in {S_dog, S_earth} }
    \cup { [op |-> "find_and_replace_text",
            args |-> [find_text |-> f, replace_text |-> S_dog]] :
             f \in {S_cat, S_world} }

RaceDocs == {D_Report, D_Styled}

InitRace ==
    /\ disk \in { Disk(d, NoFile) : d \in RaceDocs }
    /\ resp = [p \in Procs |-> NoResp]
    /\ call = [p \in Procs |-> Idle]

\* doc = Document(file_path): the invocation reads the file, or ends with
\* the error response of its except clause when the file is no document
Load(p) ==
    /\ call[p].pc = "idle"
    /\ \E c \in RaceCalls :
          IF IsDoc(disk["a.docx"])
          THEN /\ call' = [call EXCEPT ![p] = [@ EXCEPT !.pc = "loaded", !.op = c.op,
                                                  !.args = c.args,
                                                  !.doc = disk["a.docx"]]]
               /\ resp' = resp
          ELSE /\ call' = [call EXCEPT ![p] = [@ EXCEPT !.pc = "done", !.op = c.op,
                                                  !.args = c.args]]
               /\ resp' = [resp EXCEPT ![p] = Error("exception")]
    /\ UNCHANGED disk

\* the handler on the invocation's own document, up to its doc.save
InMemory(c) ==
    IF c.op = "edit_paragraph_in_document"
    THEN edit_paragraph_in_document(Disk(c.doc, NoFile), "a.docx",
                                    c.args.paragraph_index, c.args.new_text, TRUE)
    ELSE find_and_replace_text(Disk(c.doc, NoFile), "a.docx", c.args.find_text,
                               c.args.replace_text, TRUE, FALSE, TRUE)

\* the invocation changes its document in memory, or ends with an error
Mutate(p) ==
    /\ call[p].pc = "loaded"
    /\ LET r == InMemory(call[p])
       IN  IF r[1].status = "success"
           THEN /\ call' = [call EXCEPT ![p] = [@ EXCEPT !.pc = "mutated",
                                                   !.doc = r[2]["a.docx"],
                                                   !.answer = r[1]]]
                /\ resp' = resp
           ELSE /\ call' = [call EXCEPT ![p] = [@ EXCEPT !.pc = "done"]]
                /\ resp' = [resp EXCEPT ![p] = r[1]]
    /\ UNCHANGED disk

\* doc.save opens the path for writing: the file is emptied, and every save
\* under way at that time, this one too, is torn
SaveBegin(p) ==
    /\ call[p].pc = "mutated"
    /\ disk' = [disk EXCEPT !["a.docx"] = BadFile]
    /\ call' = [q \in Procs |->
                  IF q = p
                  THEN [call[q] EXCEPT !.pc = "saving",
                           !.torn = \E o \in Procs \ {p} : call[o].pc = "saving"]
                  ELSE IF call[q].pc = "saving" THEN [call[q] EXCEPT !.torn = TRUE]
                  ELSE call[q]]
    /\ UNCHANGED resp

\* doc.save closes the file and the handler returns its response: the file
\* holds the invocation's document, or, after a torn save, maybe nothing a
\* reader can open
SaveEnd(p) ==
    /\ call[p].pc = "saving"
    /\ \E file \in (IF call[p].torn THEN {call[p].doc, BadFile} ELSE {call[p].doc}) :
          disk' = [disk EXCEPT !["a.docx"] = file]
    /\ call' = [call EXCEPT ![p] =
                  [@ EXCEPT !.pc = "done",
                            !.order = 1 + Cardinality({q \in Procs : call[q].order > 0})]]
    /\ resp' = [resp EXCEPT ![p] = call[p].answer]

NextRace == \E p \in Procs : Load(p) \/ Mutate(p) \/ SaveBegin(p) \/ SaveEnd(p)

SpecRace == InitRace /\ [][NextRace]_vars

\* the invocations that have saved, and the one that saved last
Savers == {p \in Procs : call[p].order > 0}
LastSaver == CHOOSE p \in Savers : \A q \in Savers : call[q].order <= call[p].order

\* no invocation is at work
Quiet == \A p \in Procs : call[p].pc \in {"idle", "done"}

\* C25: when invocations of mutating operations on the same file
\* interleave, the file holds, once they have returned, the document of the
\* invocation that saved last, and never a mix of two documents.
C25_LastSaverWins ==
    (Quiet /\ Savers # {}) => disk["a.docx"] = call[LastSaver].doc

\* C25, the failing case: two invocations have returned success and the
\* file is no document.
C25_BothSucceedFileUnreadable ==
    /\ Quiet
    /\ \A p \in Procs : resp[p].status = "success" /\ call[p].order > 0
    /\ ~IsDoc(disk["a.docx"])

\* two invocations whose saves did not meet: the second one read the file
\* before the first one saved, and its document, without the first one's
\* edit, is what the file holds
C25_LostUpdate ==
    /\ Quiet
    /\ \A p \in Procs : resp[p].status = "success" /\ ~call[p].torn
    /\ call[1].op = "edit_paragraph_in_document"
    /\ call[2].op = "find_and_replace_text"
    /\ call[2].order = 2
    /\ disk["a.docx"] = call[2].doc
    /\ call[1].doc # call[2].doc
    /\ ParaText(Paragraphs(call[1].doc)[1]) = S_dog
    /\ ParaText(Paragraphs(disk["a.docx"])[1]) # S_dog


\* assess_document_quality gave back its report
Assessed ==
    /\ call.op = "assess_document_quality"
    /\ IsDoc(DocBefore)
    /\ resp.kind = "json"
    /\ ~resp.hasError

\* the average sentence length behind the report's readability_score
ScoredSentenceLength ==
    avg_sentence_length(QualityText(DocBefore), call.args.is_chinese)

\* C26: the average_sentence_length that assess_document_quality reports is
\* the average sentence length from which calculate_readability derives the
\* readability_score of the same report.
C26_SameSentenceLength ==
    Assessed =>
        /\ ~ScoredSentenceLength.raises
        /\ resp.data.average_sentence_length.num * ScoredSentenceLength.den
             = ScoredSentenceLength.num * resp.data.average_sentence_length.den

\* C26, the failing case: for the English text "the cat sat" the report
\* gives 13, the characters of its one piece with the blanks put after
\* the paragraphs, and the score is derived from 3, its words.
C26_CharactersAgainstWords ==
    /\ Assessed
    /\ ~call.args.is_chinese
    /\ QualityText(DocBefore) = S_the_cat_sat \o <<" ", " ">>
    /\ resp.data.average_sentence_length = Rat(13, 1)
    /\ ScoredSentenceLength = Rat(3, 1)


\* insert_table answered success after a paragraph of the document or at
\* its end
TableInserted ==
    /\ call.op = "insert_table"
    /\ IsDoc(DocBefore)
    /\ resp.status = "success"
    /\ call.args.after_paragraph = -1
         \/ ValidIndex(DocBefore, call.args.after_paragraph)

\* the index (from 0) of the new table among the tables of the document:
\* the number of tables that stand before it
NewTableIndex ==
    IF call.args.after_paragraph = -1 THEN Len(Tables(DocBefore))
    ELSE Cardinality({ b \in 1..ParaPos(DocBefore, call.args.after_paragraph + 1) :
                         IsTable(DocBefore.body[b]) })

\* the file after an edit_table_cell call on cell (0, 0) of the table whose
\* index insert_table returned
EditedNext ==
    edit_table_cell(disk, call.args.file_path, resp.data.table_index, 0, 0,
                    S_dog)[2][call.args.file_path]

\* C28: the table_index that a successful insert_table returns is the index
\* of the new table among the document's tables, and an edit_table_cell
\* call with that index made next on the file edits a cell of the new table
\* and no other table.
C28_TableIndexIsNewTable ==
    TableInserted =>
        /\ resp.data.table_index = NewTableIndex
        /\ Len(Tables(DocNow)) = Len(Tables(DocBefore)) + 1
        /\ RemoveAt(Tables(DocNow), NewTableIndex + 1) = Tables(DocBefore)
        /\ Tables(EditedNext)[NewTableIndex + 1] # Tables(DocNow)[NewTableIndex + 1]
        /\ RemoveAt(Tables(EditedNext), NewTableIndex + 1) = Tables(DocBefore)

\* C28, the failing case: a table inserted after paragraph 0 of the report
\* stands before the report's table and is table 0; the call returns
\* table_index 1, and edit_table_cell with it edits the report's table.
C28_IndexOfOldTable ==
    /\ TableInserted
    /\ DocBefore = D_Report
    /\ call.args.after_paragraph = 0
    /\ NewTableIndex = 0
    /\ resp.data.table_index = 1
    /\ Tables(DocNow)[2] = Tables(D_Report)[1]
    /\ Tables(EditedNext)[1] = Tables(DocNow)[1]
    /\ Tables(EditedNext)[2] # Tables(DocNow)[2]


\* format_text_in_document answered success to a call that left bold,
\* italic and underline at their default, False
FormattedByDefault ==
    /\ call.op = "format_text_in_document"
    /\ IsDoc(DocBefore)
    /\ resp.status = "success"
    /\ call.args.bold = Some(FALSE)
    /\ call.args.italic = Some(FALSE)
    /\ call.args.underline = Some(FALSE)

\* whether bold, italic and underline are set on a run
Flags(run) ==
    <<run.style.bold = Some(TRUE), run.style.italic = Some(TRUE),
      run.style.underline = Some(TRUE)>>

\* C29: format_text_in_document called with bold, italic and underline at
\* their defaults leaves every run of the paragraph its bold, italic and
\* underline flags, the paragraph its text and the other paragraphs as they
\* were.
C29_FlagsKept ==
    FormattedByDefault =>
        LET k == call.args.paragraph_index + 1
            old == Paragraphs(DocBefore)
            new == Paragraphs(DocNow)
        IN  /\ Len(new) = Len(old)
            /\ ParaText(new[k]) = ParaText(old[k])
            /\ \A i \in DOMAIN old : i # k => new[i] = old[i]
            /\ Len(Runs(old[k])) > 0 =>
                 /\ Len(Runs(new[k])) = Len(Runs(old[k]))
                 /\ \A j \in DOMAIN Runs(old[k]) :
                       Flags(Runs(new[k])[j]) = Flags(Runs(old[k])[j])

\* C29, the failing case: the paragraph "Hello " (bold) + "world" (italic)
\* formatted with a font name and size only has neither a bold nor an
\* italic run afterwards.
C29_BoldAndItalicLost ==
    /\ FormattedByDefault
    /\ DocBefore = D_Styled
    /\ call.args.paragraph_index = 0
    /\ Flags(Runs(Paragraphs(DocBefore)[1])[1]) = <<TRUE, FALSE, FALSE>>
    /\ Flags(Runs(Paragraphs(DocBefore)[1])[2]) = <<FALSE, TRUE, FALSE>>
    /\ \A j \in 1..2 : Flags(Runs(Paragraphs(DocNow)[1])[j]) = <<FALSE, FALSE, FALSE>>
    /\ ParaText(Paragraphs(DocNow)[1]) = ParaText(Paragraphs(DocBefore)[1])


(***************************************************************************)
(* C30                                                                      *)
(***************************************************************************)
\* the last call was extract_document_info on a document and gave its report
Extracted ==
    /\ call.op = "extract_document_info"
    /\ IsDoc(DocBefore)
    /\ resp.kind = "json"
    /\ ~resp.hasError

\* every piece of text of the document once: the paragraph texts that are
\* not blank and the text of every cell, a blank after each
OnceText(doc) ==
    ParagraphsText(doc)
        \o Concat([i \in DOMAIN CellTexts(doc) |-> Strip(CellTexts(doc)[i]) \o <<" ">>])

\* the paragraphs of the document in a Heading style that have text
HeadingsWithText(doc) ==
    SelectSeq(Paragraphs(doc),
              LAMBDA para : HeadingLevel(para.style) # 0 /\ Strip(ParaText(para)) # <<>>)

\* C30: the report of extract_document_info with the default extract_content
\* counts every piece of text once: its text is the paragraph texts that are
\* not blank followed by the cell texts, word_count is the number of words
\* of that text and the keyword frequencies are those of that text, a
\* heading paragraph counting once like any other.
C30_EachTextOnce ==
    Extracted =>
        /\ resp.data.text = Strip(OnceText(DocBefore))
        /\ resp.data.word_count = count_words(OnceText(DocBefore), FALSE)
        /\ resp.data.keywords = extract_keywords(OnceText(DocBefore), 10)

\* C30, the failing case: a document without tables whose only text is the
\* heading "cat" is reported with the text "cat cat", two words and the
\* keyword cat twice
C30_HeadingCountedTwice ==
    /\ Extracted
    /\ Tables(DocBefore) = <<>>
    /\ Len(HeadingsWithText(DocBefore)) = 1
    /\ OnceText(DocBefore) = S_cat \o <<" ">>
    /\ resp.data.text = S_cat_cat
    /\ resp.data.word_count = 2
    /\ resp.data.keywords = <<[word |-> S_cat, count |-> 2]>>


====
